---- MODULE Spec2Model ----
(***************************************************************************)
(* Press monitor firmware (ESP32): debounced inputs, press state machine,  *)
(* MQTT status/commands, AlphaBase event log with the refresh/re-login     *)
(* cascade, stop notifications, LEDs and the periodic work of loop().      *)
(*                                                                         *)
(* One action per step of loop(); every action carries out the whole       *)
(* handler, including the publish / log / notify calls it makes.  The      *)
(* network effects of the last step are recorded in `out`, the step itself *)
(* in `op`.  rawLevel / rawHeld record the level each input pin presented  *)
(* at the latest pass of loop() over its handler (also when the handler    *)
(* returned before reading it) and for how long it has presented it,       *)
(* counted up to just past the debounce window.                            *)
(* millis() advances between passes of loop() and inside a pass: every     *)
(* request to the backend blocks for its latency and every failed poll of  *)
(* connectToWiFi waits, so a value stamped after a request is later than   *)
(* one stamped before it.                                                  *)
(***************************************************************************)
EXTENDS Integers, Sequences, FiniteSets, TLC

\* ------------------------------------------------------------------------
\* Bounds of the model
\* ------------------------------------------------------------------------
\* number of steps that millis() advances between passes of loop(): in
\* the plant and against the backend, where a complete cycle is closed by
\* a remote command; where it is closed by a reason button; on the bench
MaxTicks == 3
MaxTicksCycle == 4
MaxTicksPins == 7

\* steps of millis() while the operator works as they please, and further
\* steps granted to an operator who works towards a goal
FreeTicks == 3
CycleTicks == 12

\* ------------------------------------------------------------------------
\* Program constants
\* ------------------------------------------------------------------------
debounceDelay == 50
blinkInterval == 500
mqttPublishInterval == 5000
tokenRefreshInterval == 900000
bootDelay == 1000
wifiRetryDelay == 500
mqttRetryDelay == 500

\* millis() is observed in steps just longer than the debounce window
TickStep == debounceDelay + 1

\* ... or in steps of twice the debounce window, which divide the delay
\* between two polls of connectToWiFi
CoarseStep == 2 * debounceDelay

\* a request to the backend blocks for one step of millis(), or for half
\* a coarse step
HttpDelay == TickStep
ShortDelay == CoarseStep \div 2

\* ... or in steps of half a refresh interval and a bit
LongStep == tokenRefreshInterval \div 2 + TickStep

IDLE == 0
RUNNING == 1
WAITING_FOR_REASON == 2

LOW == "LOW"
HIGH == "HIGH"
Level == {LOW, HIGH}

StartStop == "StartStop"
Maintenance == "Maintenance"
Quality == "Quality"
Material == "Material"
ToolChange == "ToolChange"
ReasonChannels == {Maintenance, Quality, Material, ToolChange}
Channels == {StartStop} \cup ReasonChannels

AnyLevel == [ch \in Channels |-> Level]

\* ------------------------------------------------------------------------
\* Inputs: backend responses and inbound MQTT payloads
\* ------------------------------------------------------------------------
Tokens == {"tokA", "tokB"}

\* HTTP status of a POST; a negative code is a transport error of HTTPClient
SubmitCodes == {200, 201, 401, 500, -1}
AlertCodes == {200, 401}

\* body of an auth response: a token, a body that is not JSON, or JSON
\* without access_token
AuthResponses ==
    [code : {200}, body : Tokens \cup {"unparseable", "no_token"}]
      \cup [code : {401, -1}, body : {"no_token"}]

NoAuthResponse == [code |-> -1, body |-> "no_token"]

\* the responses to the (up to) four requests of one logEventToAlphaBase
\* call: first submission, refresh, login, second submission.  The response
\* to a request that the answers before it leave no occasion for is the
\* transport error.
\* Every request of the call blocks for ms.
Latencies == {HttpDelay}

LogResponses ==
    {rs \in [s1 : SubmitCodes, rf : AuthResponses, lg : AuthResponses, s2 : SubmitCodes,
             ms : Latencies] :
        /\ rs.s1 \in {200, 201} => rs.rf = NoAuthResponse /\ rs.s2 = -1
        /\ (rs.s1 \in {200, 201} \/ (rs.rf.code = 200 /\ rs.rf.body \in Tokens))
              => rs.lg = NoAuthResponse
        /\ (~(rs.rf.code = 200 /\ rs.rf.body \in Tokens) /\ rs.lg.code # 200)
              => rs.s2 = -1}

AlertResponses == [email : AlertCodes, telegram : AlertCodes, ms : Latencies]

nullptr == "<nullptr>"

\* the link stays down: connectToWiFi does not return
Forever == -1

Messages ==
    [parse : {TRUE}, command : {"select_reason"},
     reason : {"Maintenance Required", "Maintenance", "Quality Issue", "Quality",
               "quality", "Material Issue", "Tool Change", "Lunch"}]
      \cup [parse : {TRUE}, command : {"reset"}, reason : {"Quality Issue"}]
      \cup [parse : {TRUE}, command : {nullptr}, reason : {"Quality Issue"}]
      \cup [parse : {TRUE}, command : {"select_reason"}, reason : {nullptr}]
      \cup [parse : {FALSE}, command : {nullptr}, reason : {nullptr}]

NoMessage == [parse |-> FALSE, command |-> "", reason |-> ""]

\* Environments: the answers of the backend (auth to the boot login, renew
\* to the periodic refresh, log to the event cascade), the remote commands, whether
\* the broker connection drops and /status is requested, the reason buttons
\* the operator uses and whether they are pressed together, whether the
\* Start/Stop button bounces, millis() when setup() calls connectMQTT (it
\* waits for the WiFi link before), whether the link stays up, in what steps and how far millis()
\* advances between the passes of loop(), how many polls of connectToWiFi
\* find the link down before it is back (polls), how mqttClient.connect()
\* answers once the broker connection is lost (connects), how long the
\* periodic refresh blocks (delay), whether the run is followed beyond a
\* fault of the firmware, after which the chip restarts (restart), and
\* whether the level presented by each pin is recorded at every pass of
\* loop() (rawLevel, rawHeld).  An operator who
\* works towards a goal narrows the choices further: the levels the pins
\* are held at (hold), whether the broker has nothing to deliver (quiet),
\* and whether millis() advances (tick) or loop() is entered (pass) next.

\* one answer sequence per course the cascade can take
PlantLog ==
    {[s1 |-> 201, rf |-> NoAuthResponse, lg |-> NoAuthResponse, s2 |-> -1, ms |-> HttpDelay],
     [s1 |-> 401, rf |-> [code |-> 200, body |-> "tokB"], lg |-> NoAuthResponse, s2 |-> 201, ms |-> HttpDelay],
     [s1 |-> 401, rf |-> [code |-> 200, body |-> "tokB"], lg |-> NoAuthResponse, s2 |-> 401, ms |-> HttpDelay],
     [s1 |-> 401, rf |-> NoAuthResponse, lg |-> [code |-> 200, body |-> "tokA"], s2 |-> 201, ms |-> HttpDelay],
     [s1 |-> 401, rf |-> NoAuthResponse, lg |-> [code |-> 200, body |-> "no_token"], s2 |-> 401, ms |-> HttpDelay],
     [s1 |-> -1, rf |-> NoAuthResponse, lg |-> NoAuthResponse, s2 |-> -1, ms |-> HttpDelay]}

\* every remote command, every button, a flaky broker that may drop a new
\* connection at once, typical answers;
\* setup() returns when the first heartbeat is due
Plant ==
    [auth |-> {[code |-> 200, body |-> "tokA"], NoAuthResponse},
     renew |-> {[code |-> 200, body |-> "tokA"], NoAuthResponse},
     log |-> PlantLog, alert |-> AlertResponses,
     msgs |-> Messages, flaky |-> BOOLEAN, driven |-> ReasonChannels,
     together |-> FALSE,
     bounce |-> TRUE, track |-> FALSE, boot |-> {bootDelay + 8 * wifiRetryDelay},
     quiet |-> TRUE, hold |-> AnyLevel, tick |-> TRUE, pass |-> TRUE,
     link |-> {TRUE}, step |-> TickStep, ticks |-> MaxTicks,
     polls |-> {0}, delay |-> Latencies, connects |-> {<<TRUE>>, <<TRUE, TRUE>>},
     restart |-> FALSE]

\* every answer of the backend to the boot login and to the event cascade,
\* one remote command, one reason button
Cascade ==
    [auth |-> AuthResponses,
     renew |-> {NoAuthResponse},
     log |-> LogResponses, alert |-> AlertResponses,
     msgs |-> {[parse |-> TRUE, command |-> "select_reason", reason |-> "Quality Issue"]},
     flaky |-> {FALSE}, driven |-> {Maintenance},
     together |-> FALSE,
     bounce |-> FALSE, track |-> FALSE, boot |-> {bootDelay},
     quiet |-> TRUE, hold |-> AnyLevel, tick |-> TRUE, pass |-> TRUE,
     link |-> {TRUE}, step |-> TickStep, ticks |-> MaxTicks,
     polls |-> {0}, delay |-> Latencies, connects |-> {<<TRUE>>},
     restart |-> FALSE]

\* two reason buttons that may be pressed together, one remote command, a
\* backend that accepts everything, pins recorded
Panel ==
    [auth |-> {[code |-> 200, body |-> "tokA"]}, renew |-> {NoAuthResponse},
     log |-> {[s1 |-> 201, rf |-> NoAuthResponse, lg |-> NoAuthResponse, s2 |-> -1, ms |-> HttpDelay]},
     alert |-> {[email |-> 200, telegram |-> 200, ms |-> HttpDelay]},
     msgs |-> {[parse |-> TRUE, command |-> "select_reason", reason |-> "Material Issue"]},
     flaky |-> {FALSE}, driven |-> {Maintenance, Quality}, together |-> TRUE,
     bounce |-> FALSE, track |-> TRUE, boot |-> {bootDelay},
     quiet |-> TRUE, hold |-> AnyLevel, tick |-> TRUE, pass |-> TRUE,
     link |-> {TRUE}, step |-> TickStep, ticks |-> MaxTicksCycle,
     polls |-> {0}, delay |-> Latencies, connects |-> {<<TRUE>>},
     restart |-> FALSE]

\* millis() observed in steps of half a refresh interval: runs of
\* minutes, a heartbeat and a periodic refresh that fall due again and
\* again; a backend that accepts the events and renews or refuses the token
Shift ==
    [auth |-> {[code |-> 200, body |-> "tokA"]},
     renew |-> {[code |-> 200, body |-> "tokB"], NoAuthResponse},
     log |-> {[s1 |-> 201, rf |-> NoAuthResponse, lg |-> NoAuthResponse, s2 |-> -1, ms |-> HttpDelay]},
     alert |-> {[email |-> 200, telegram |-> 200, ms |-> HttpDelay]},
     msgs |-> {[parse |-> TRUE, command |-> "select_reason", reason |-> "Tool Change"]},
     flaky |-> {FALSE}, driven |-> {Material}, together |-> FALSE,
     bounce |-> FALSE, track |-> FALSE, boot |-> {bootDelay},
     quiet |-> TRUE, hold |-> AnyLevel, tick |-> TRUE, pass |-> TRUE,
     link |-> {TRUE}, step |-> LongStep, ticks |-> MaxTicksCycle,
     polls |-> {0}, delay |-> Latencies, connects |-> {<<TRUE>>},
     restart |-> FALSE]

\* a WiFi link that comes and goes after setup(), a broker that drops the
\* connection, refuses a connect, drops the new connection at once or
\* refuses for good, backend unreachable, one remote command, one reason
\* button, pins recorded
Outage ==
    [auth |-> {NoAuthResponse}, renew |-> {NoAuthResponse},
     log |-> {[s1 |-> -1, rf |-> NoAuthResponse, lg |-> NoAuthResponse, s2 |-> -1, ms |-> ShortDelay]},
     alert |-> {[email |-> 401, telegram |-> 401, ms |-> ShortDelay]},
     msgs |-> {[parse |-> TRUE, command |-> "select_reason", reason |-> "Quality Issue"]},
     flaky |-> BOOLEAN, driven |-> {Maintenance}, together |-> FALSE,
     bounce |-> FALSE, track |-> TRUE, boot |-> {bootDelay},
     quiet |-> TRUE, hold |-> AnyLevel, tick |-> TRUE, pass |-> TRUE,
     link |-> BOOLEAN, step |-> CoarseStep, ticks |-> MaxTicks,
     polls |-> {0, 1, 2, Forever}, delay |-> Latencies,
     connects |-> {<<TRUE>>, <<FALSE, TRUE>>, <<TRUE, TRUE>>, <<FALSE, TRUE, TRUE>>,
                   <<FALSE>>},
     restart |-> FALSE]

\* backend unreachable, one remote command, one reason button, pins recorded
Bench ==
    [auth |-> {NoAuthResponse}, renew |-> {NoAuthResponse},
     log |-> {[s1 |-> -1, rf |-> NoAuthResponse, lg |-> NoAuthResponse, s2 |-> -1, ms |-> HttpDelay]},
     alert |-> {[email |-> 401, telegram |-> 401, ms |-> HttpDelay]},
     msgs |-> {[parse |-> TRUE, command |-> "select_reason", reason |-> "Quality Issue"]},
     flaky |-> {FALSE}, driven |-> {Maintenance}, together |-> FALSE,
     bounce |-> FALSE, track |-> TRUE, boot |-> {bootDelay},
     quiet |-> TRUE, hold |-> AnyLevel, tick |-> TRUE, pass |-> TRUE,
     link |-> {TRUE}, step |-> TickStep, ticks |-> MaxTicksPins,
     polls |-> {0}, delay |-> Latencies, connects |-> {<<TRUE>>},
     restart |-> FALSE]

\* ------------------------------------------------------------------------
\* State
\* ------------------------------------------------------------------------
VARIABLES
    pc,                 \* position in setup() / loop()
    now,                \* millis()
    pressState, pressStartTime, pressStopTime,
    authToken,
    buttonState, lastButtonState, lastDebounceTime,
    rawLevel, rawHeld,
    rawState,           \* pressState when the pin last changed its level
    lastBlinkTime, ledState, redLed, greenLed,
    lastMQTTPublish, lastTokenRefresh,
    wifi,               \* WiFi.status() == WL_CONNECTED
    passMoves,          \* handlers that changed pressState in this pass of loop()
    goal,               \* the cycle the operator works towards, if any
    lap,                \* steps that changed pressState since the goal was set
    lastRefreshAttempt, \* millis() of the latest periodic refresh attempt
    lastMove,           \* millis() of the latest change of pressState
    ticked,             \* steps of millis() between passes, failed periodic refreshes, waits in connectMQTT
    out,                \* network effects of the last step, in order
    op,                 \* the last step
    client,             \* monitoring app: connection state of _client, "null" if none
    isConnected,        \* monitoring app: _isConnected
    appPressState,      \* monitoring app: _pressState
    connectionMessage,  \* monitoring app: _connectionMessage
    connectionTimer,    \* monitoring app: _connectionTimer is pending
    listening,          \* monitoring app: _handleIncomingMessage listens to updates
    inbox,              \* monitoring app: status payload received, not yet handled
    sent                \* monitoring app: last payload published on the commands topic

deviceVars == <<pc, now, pressState, pressStartTime, pressStopTime, authToken,
                buttonState, lastButtonState, lastDebounceTime, rawLevel, rawHeld,
                rawState, lastBlinkTime, ledState, redLed, greenLed,
                lastMQTTPublish, lastTokenRefresh, wifi, passMoves, goal, lap,
                lastRefreshAttempt, lastMove, ticked,
                out, op>>

appVars == <<client, isConnected, appPressState, connectionMessage, connectionTimer,
             listening, inbox, sent>>

vars == <<deviceVars, appVars>>

pressVars == <<pressState, pressStartTime, pressStopTime>>
debounceVars == <<buttonState, lastButtonState, lastDebounceTime>>
rawVars == <<rawLevel, rawHeld, rawState>>
ledVars == <<lastBlinkTime, ledState, redLed, greenLed>>
periodicVars == <<lastMQTTPublish, lastTokenRefresh, lastRefreshAttempt>>
cycleVars == <<goal, lap, lastMove>>
linkVars == <<wifi, ticked>>

\* ------------------------------------------------------------------------
\* Helpers
\* ------------------------------------------------------------------------
\* unsigned long arithmetic, for operands below 2^31.  a - b wraps to
\* 2^32 - (b - a) when a < b, which exceeds every threshold d < 2^31;
\* 2^32 = 4294967 * 1000 + 296 gives its quotient by 1000.
Sub32Gt(a, b, d) == IF a >= b THEN a - b > d ELSE TRUE

Sub32Ge(a, b, d) == IF a >= b THEN a - b >= d ELSE TRUE

Sub32Div1000(a, b) ==
    IF a >= b THEN (a - b) \div 1000 ELSE 4294967 + ((296 - (b - a)) \div 1000)

Min(a, b) == IF a <= b THEN a ELSE b

Step(name, reading, msg, commit) ==
    [name |-> name, reading |-> reading, msg |-> msg, commit |-> commit]

Select(s, tag) == SelectSeq(s, LAMBDA e : e[1] = tag)

Count(s, tag) == Len(Select(s, tag))

\* no periodic refresh attempted yet, no change of pressState yet
Never == -1

\* the operator works towards no goal
NoGoal == [by |-> "nobody", ch |-> StartStop]

\* the handler `name` is added to the record of the pass if it changed
\* pressState; the change is timed as the code times it: a start and a
\* stop when the handler commits the press, the return to Idle once the
\* alerts and the event log have returned
Moved(name) ==
    /\ passMoves' = IF pressState' # pressState THEN Append(passMoves, name)
                    ELSE passMoves
    /\ lap' = IF pressState' # pressState /\ goal # NoGoal THEN Append(lap, op')
              ELSE lap
    /\ goal' = goal
    /\ lastMove' = IF pressState' = pressState THEN lastMove
                   ELSE IF pressState' = IDLE THEN now'
                   ELSE now
    /\ UNCHANGED appVars

\* ------------------------------------------------------------------------
\* wifi_mqtt: publishStatusMQTT
\* ------------------------------------------------------------------------
\* variant: the waiting state is published under a shortened name
StateStr_Short(s) ==
    IF s = IDLE THEN "IDLE"
    ELSE IF s = RUNNING THEN "RUNNING"
    ELSE IF s = WAITING_FOR_REASON THEN "WAITING"
    ELSE ""

StateStr(s) ==
    IF s = IDLE THEN "IDLE"
    ELSE IF s = RUNNING THEN "RUNNING"
    ELSE IF s = WAITING_FOR_REASON THEN "WAITING_FOR_REASON"
    ELSE ""

publishStatusMQTT(s, t) == <<"status", StateStr(s), t>>

\* ------------------------------------------------------------------------
\* alphabase: login, refresh, event log cascade, notifications
\* Each returns the credential after the call and the requests it made,
\* every request with the outcome the code distinguishes.
\* ------------------------------------------------------------------------
\* variant: a login answer without access_token leaves an empty credential
loginAlphaBase_EmptyToken(tok, resp) ==
    IF resp.code = 200
    THEN [ok |-> TRUE,
          token |-> IF resp.body \in Tokens THEN resp.body ELSE "",
          trace |-> <<<<"login", TRUE>>>>]
    ELSE [ok |-> FALSE, token |-> tok, trace |-> <<<<"login", FALSE>>>>]

\* as<String>() of a missing access_token yields the text "null"
loginAlphaBase(tok, resp) ==
    IF resp.code = 200
    THEN [ok |-> TRUE,
          token |-> IF resp.body \in Tokens THEN resp.body ELSE "null",
          trace |-> <<<<"login", TRUE>>>>]
    ELSE [ok |-> FALSE, token |-> tok, trace |-> <<<<"login", FALSE>>>>]

refreshAlphaBaseToken(tok, resp) ==
    IF resp.code = 200
    THEN IF resp.body = "unparseable"
         THEN [ok |-> FALSE, token |-> tok, trace |-> <<<<"refresh", FALSE>>>>]
         ELSE IF resp.body \in Tokens
         THEN [ok |-> TRUE, token |-> resp.body, trace |-> <<<<"refresh", TRUE>>>>]
         ELSE [ok |-> FALSE, token |-> tok, trace |-> <<<<"refresh", FALSE>>>>]
    ELSE [ok |-> FALSE, token |-> tok, trace |-> <<<<"refresh", FALSE>>>>]

\* variant: every event of a press that was started carries the field
RuntimeField_AnyEvent(event, startT, stopT) ==
    IF startT > 0 THEN Sub32Div1000(stopT, startT) ELSE -1

\* runtime_seconds of the payload; -1 stands for an absent field
RuntimeField(event, startT, stopT) ==
    IF event = "STOPPED" /\ startT > 0 THEN Sub32Div1000(stopT, startT) ELSE -1

EventPayload(event, reason, startT, stopT, t) ==
    [event_type |-> event, timestamp |-> t, downtime_reason |-> reason,
     runtime_seconds |-> RuntimeField(event, startT, stopT)]

\* the three outcomes of the POST in attemptAlphaBaseLog
SubmitResult(code) ==
    IF code = 401 THEN "unauthorized"
    ELSE IF code = 200 \/ code = 201 THEN "ok"
    ELSE "failed"

\* variant: a POST that is not accepted is sent a second time
attemptAlphaBaseLog_Resend(tok, event, reason, startT, stopT, t, code) ==
    IF tok = ""
    THEN [ok |-> FALSE, trace |-> <<>>]
    ELSE [ok |-> SubmitResult(code) = "ok",
          trace |-> IF SubmitResult(code) = "ok"
                    THEN <<<<"submit", EventPayload(event, reason, startT, stopT, t),
                             SubmitResult(code)>>>>
                    ELSE <<<<"submit", EventPayload(event, reason, startT, stopT, t),
                             SubmitResult(code)>>,
                           <<"submit", EventPayload(event, reason, startT, stopT, t),
                             SubmitResult(code)>>>>]

attemptAlphaBaseLog(tok, event, reason, startT, stopT, t, code) ==
    IF tok = ""
    THEN [ok |-> FALSE, trace |-> <<>>]
    ELSE [ok |-> SubmitResult(code) = "ok",
          trace |-> <<<<"submit", EventPayload(event, reason, startT, stopT, t),
                        SubmitResult(code)>>>>]

\* `if (!success)` at the end of logEventToAlphaBase: the event is given up
GiveUp(success) == IF success THEN <<>> ELSE <<<<"gave_up">>>>

\* variant: a retry that fails after a refresh falls through to the login
logEventToAlphaBase_LoginAfterRetry(tok, event, reason, startT, stopT, t, rs) ==
    LET a1 == attemptAlphaBaseLog(tok, event, reason, startT, stopT, t, rs.s1)
        t1 == t + rs.ms * Len(a1.trace)
        rf == refreshAlphaBaseToken(tok, rs.rf)
        t2 == t1 + rs.ms
        a2 == attemptAlphaBaseLog(rf.token, event, reason, startT, stopT, t2, rs.s2)
        t3 == IF rf.ok THEN t2 + rs.ms * Len(a2.trace) ELSE t2
        lg == loginAlphaBase(rf.token, rs.lg)
        t4 == t3 + rs.ms
        a3 == attemptAlphaBaseLog(lg.token, event, reason, startT, stopT, t4, rs.s2)
    IN  IF a1.ok
        THEN [token |-> tok, trace |-> a1.trace, end |-> t1]
        ELSE IF rf.ok /\ a2.ok
        THEN [token |-> rf.token, trace |-> a1.trace \o rf.trace \o a2.trace, end |-> t3]
        ELSE IF lg.ok
        THEN [token |-> lg.token,
              trace |-> a1.trace \o rf.trace \o (IF rf.ok THEN a2.trace ELSE <<>>)
                          \o lg.trace \o a3.trace \o GiveUp(a3.ok),
              end |-> t4 + rs.ms * Len(a3.trace)]
        ELSE [token |-> lg.token,
              trace |-> a1.trace \o rf.trace \o (IF rf.ok THEN a2.trace ELSE <<>>)
                          \o lg.trace \o GiveUp(FALSE),
              end |-> t4]

\* Every request of the cascade blocks for rs.ms, and every attempt reads
\* millis() anew for its timestamp: t1, t2, t3 are millis() after the
\* first attempt, after the refresh and after the login.  `end` is
\* millis() when the call returns.
logEventToAlphaBase(tok, event, reason, startT, stopT, t, rs) ==
    LET a1 == attemptAlphaBaseLog(tok, event, reason, startT, stopT, t, rs.s1)
        t1 == t + rs.ms * Len(a1.trace)
        t2 == t1 + rs.ms
        t3 == t2 + rs.ms
    IN  IF a1.ok
        THEN [token |-> tok, trace |-> a1.trace \o GiveUp(TRUE), end |-> t1]
        ELSE LET rf == refreshAlphaBaseToken(tok, rs.rf)
             IN  IF rf.ok
                 THEN LET a2 == attemptAlphaBaseLog(rf.token, event, reason,
                                                    startT, stopT, t2, rs.s2)
                      IN  [token |-> rf.token,
                           trace |-> a1.trace \o rf.trace \o a2.trace \o GiveUp(a2.ok),
                           end |-> t2 + rs.ms * Len(a2.trace)]
                 ELSE LET lg == loginAlphaBase(rf.token, rs.lg)
                      IN  IF lg.ok
                          THEN LET a2 == attemptAlphaBaseLog(lg.token, event, reason,
                                                             startT, stopT, t3, rs.s2)
                               IN  [token |-> lg.token,
                                    trace |-> a1.trace \o rf.trace \o lg.trace
                                                \o a2.trace \o GiveUp(a2.ok),
                                    end |-> t3 + rs.ms * Len(a2.trace)]
                          ELSE [token |-> lg.token,
                                trace |-> a1.trace \o rf.trace \o lg.trace \o GiveUp(FALSE),
                                end |-> t3]

sendStopEmailAlert(reason, runtime, code) ==
    <<"email", reason, runtime, runtime \div 60, runtime % 60, code = 200>>

sendStopTelegramAlert(reason, runtime, code) ==
    <<"telegram", reason, runtime \div 60, runtime % 60, code = 200>>

\* variant: the Telegram alert is sent only when the email alert went out
sendStopNotifications_StopOnFailure(tok, reason, startT, stopT, ars) ==
    IF tok = ""
    THEN <<>>
    ELSE LET runtime == Sub32Div1000(stopT, startT)
         IN  IF ars.email = 200
             THEN <<sendStopEmailAlert(reason, runtime, ars.email),
                    sendStopTelegramAlert(reason, runtime, ars.telegram)>>
             ELSE <<sendStopEmailAlert(reason, runtime, ars.email)>>

\* variant: the alerts are sent without looking at the credential
sendStopNotifications_NoGate(tok, reason, startT, stopT, ars) ==
    LET runtime == Sub32Div1000(stopT, startT)
    IN  <<sendStopEmailAlert(reason, runtime, ars.email),
          sendStopTelegramAlert(reason, runtime, ars.telegram)>>

sendStopNotifications(tok, reason, startT, stopT, ars) ==
    IF tok = ""
    THEN <<>>
    ELSE LET runtime == Sub32Div1000(stopT, startT)
         IN  <<sendStopEmailAlert(reason, runtime, ars.email),
               sendStopTelegramAlert(reason, runtime, ars.telegram)>>

\* ------------------------------------------------------------------------
\* State machine steps shared by the local handlers and the MQTT callback
\* ------------------------------------------------------------------------
\* variant: the stop is published but not handed to the event log
StartStopPressed_NoStopEvent(s, tok, startT, stopT, t, rs) ==
    IF s = IDLE
    THEN LET lg == logEventToAlphaBase(tok, "STARTED", "", t, stopT, t, rs)
         IN  [state |-> RUNNING, start |-> t, stop |-> stopT, token |-> lg.token,
              out |-> <<publishStatusMQTT(RUNNING, t)>> \o lg.trace, end |-> lg.end]
    ELSE IF s = RUNNING
    THEN [state |-> WAITING_FOR_REASON, start |-> startT, stop |-> t, token |-> tok,
          out |-> <<publishStatusMQTT(WAITING_FOR_REASON, t)>>, end |-> t]
    ELSE [state |-> s, start |-> startT, stop |-> stopT, token |-> tok, out |-> <<>>,
          end |-> t]

\* variant: the press starts only when the STARTED event was accepted
StartStopPressed_StartIfLogged(s, tok, startT, stopT, t, rs) ==
    IF s = IDLE
    THEN LET lg == logEventToAlphaBase(tok, "STARTED", "", t, stopT, t, rs)
         IN  IF Count(lg.trace, "gave_up") = 0
             THEN [state |-> RUNNING, start |-> t, stop |-> stopT, token |-> lg.token,
                   out |-> <<publishStatusMQTT(RUNNING, t)>> \o lg.trace,
                   end |-> lg.end]
             ELSE [state |-> IDLE, start |-> startT, stop |-> stopT, token |-> lg.token,
                   out |-> lg.trace, end |-> lg.end]
    ELSE IF s = RUNNING
    THEN LET lg == logEventToAlphaBase(tok, "STOPPED", "", startT, t, t, rs)
         IN  [state |-> WAITING_FOR_REASON, start |-> startT, stop |-> t,
              token |-> lg.token,
              out |-> <<publishStatusMQTT(WAITING_FOR_REASON, t)>> \o lg.trace,
              end |-> lg.end]
    ELSE [state |-> s, start |-> startT, stop |-> stopT, token |-> tok, out |-> <<>>,
          end |-> t]

\* variant: the stop does not record pressStopTime
StartStopPressed_StopNotRecorded(s, tok, startT, stopT, t, rs) ==
    IF s = IDLE
    THEN LET lg == logEventToAlphaBase(tok, "STARTED", "", t, stopT, t, rs)
         IN  [state |-> RUNNING, start |-> t, stop |-> stopT, token |-> lg.token,
              out |-> <<publishStatusMQTT(RUNNING, t)>> \o lg.trace, end |-> lg.end]
    ELSE IF s = RUNNING
    THEN LET lg == logEventToAlphaBase(tok, "STOPPED", "", startT, stopT, t, rs)
         IN  [state |-> WAITING_FOR_REASON, start |-> startT, stop |-> stopT,
              token |-> lg.token,
              out |-> <<publishStatusMQTT(WAITING_FOR_REASON, t)>> \o lg.trace,
              end |-> lg.end]
    ELSE [state |-> s, start |-> startT, stop |-> stopT, token |-> tok, out |-> <<>>,
          end |-> t]

\* variant: `else` in place of `else if (pressState == RUNNING)`
StartStopPressed_ElseStop(s, tok, startT, stopT, t, rs) ==
    IF s = IDLE
    THEN LET lg == logEventToAlphaBase(tok, "STARTED", "", t, stopT, t, rs)
         IN  [state |-> RUNNING, start |-> t, stop |-> stopT, token |-> lg.token,
              out |-> <<publishStatusMQTT(RUNNING, t)>> \o lg.trace, end |-> lg.end]
    ELSE LET lg == logEventToAlphaBase(tok, "STOPPED", "", startT, t, t, rs)
         IN  [state |-> WAITING_FOR_REASON, start |-> startT, stop |-> t,
              token |-> lg.token,
              out |-> <<publishStatusMQTT(WAITING_FOR_REASON, t)>> \o lg.trace,
              end |-> lg.end]

\* body of `if (buttonStartStopState == LOW)` in handleStartStopButton:
\* the transition time and the published status carry millis() of the
\* commit, the event log follows; `end` is millis() when the body is done
StartStopPressed(s, tok, startT, stopT, t, rs) ==
    IF s = IDLE
    THEN LET lg == logEventToAlphaBase(tok, "STARTED", "", t, stopT, t, rs)
         IN  [state |-> RUNNING, start |-> t, stop |-> stopT, token |-> lg.token,
              out |-> <<publishStatusMQTT(RUNNING, t)>> \o lg.trace, end |-> lg.end]
    ELSE IF s = RUNNING
    THEN LET lg == logEventToAlphaBase(tok, "STOPPED", "", startT, t, t, rs)
         IN  [state |-> WAITING_FOR_REASON, start |-> startT, stop |-> t,
              token |-> lg.token,
              out |-> <<publishStatusMQTT(WAITING_FOR_REASON, t)>> \o lg.trace,
              end |-> lg.end]
    ELSE [state |-> s, start |-> startT, stop |-> stopT, token |-> tok, out |-> <<>>,
          end |-> t]

\* variant: the IDLE status is published before the alerts and the event
ReasonSelected_PublishFirst(reason, tok, startT, stopT, t, ars, rs) ==
    LET nt == sendStopNotifications(tok, reason, startT, stopT, ars)
        lg == logEventToAlphaBase(tok, "REASON_SELECTED", reason, startT, stopT,
                                  t + ars.ms * Len(nt), rs)
    IN  [state |-> IDLE, token |-> lg.token,
         out |-> <<publishStatusMQTT(IDLE, t)>> \o nt \o lg.trace, end |-> lg.end]

\* variant: a selected reason restarts the press instead of idling it
ReasonSelected_Resume(reason, tok, startT, stopT, t, ars, rs) ==
    LET nt == sendStopNotifications(tok, reason, startT, stopT, ars)
        lg == logEventToAlphaBase(tok, "REASON_SELECTED", reason, startT, stopT,
                                  t + ars.ms * Len(nt), rs)
    IN  [state |-> RUNNING, token |-> lg.token,
         out |-> nt \o lg.trace \o <<publishStatusMQTT(RUNNING, lg.end)>>,
         end |-> lg.end]

\* variant: the alerts are sent again once the event cascade has renewed
\* the credential
ReasonSelected_ResendAlerts(reason, tok, startT, stopT, t, ars, rs) ==
    LET nt == sendStopNotifications(tok, reason, startT, stopT, ars)
        lg == logEventToAlphaBase(tok, "REASON_SELECTED", reason, startT, stopT,
                                  t + ars.ms * Len(nt), rs)
        again == IF lg.token # tok THEN nt ELSE <<>>
    IN  [state |-> IDLE, token |-> lg.token,
         out |-> nt \o lg.trace \o again
                    \o <<publishStatusMQTT(IDLE, lg.end + ars.ms * Len(again))>>,
         end |-> lg.end + ars.ms * Len(again)]

\* the four statements run on a reason selection (button or command):
\* the alerts block for ars.ms each, the event is stamped after them, the
\* IDLE status after the event cascade
ReasonSelected(reason, tok, startT, stopT, t, ars, rs) ==
    LET nt == sendStopNotifications(tok, reason, startT, stopT, ars)
        lg == logEventToAlphaBase(tok, "REASON_SELECTED", reason, startT, stopT,
                                  t + ars.ms * Len(nt), rs)
    IN  [state |-> IDLE, token |-> lg.token,
         out |-> nt \o lg.trace \o <<publishStatusMQTT(IDLE, lg.end)>>,
         end |-> lg.end]

\* variant: the gate is missing
AcceptsReason_Always(s) == s \in {IDLE, RUNNING, WAITING_FOR_REASON}

\* variant: the gate only rejects reasons while idle
AcceptsReason_NotIdle(s) == s # IDLE

\* `if (pressState != WAITING_FOR_REASON) return;` of the four reason
\* handlers and of mqttCallback
AcceptsReason(s) == s = WAITING_FOR_REASON

\* reason string passed by each reason button handler
ButtonReason(ch) ==
    IF ch = Maintenance THEN "Maintenance Required"
    ELSE IF ch = Quality THEN "Quality Issue"
    ELSE IF ch = Material THEN "Material Issue"
    ELSE "Tool Change"

\* variant: the branch for "Quality Issue" is missing from the chain
MatchReason_NoQuality(reason) ==
    IF reason = "Maintenance Required" \/ reason = "Maintenance"
    THEN "Maintenance Required"
    ELSE IF reason = "Material Issue" THEN "Material Issue"
    ELSE IF reason = "Tool Change" THEN "Tool Change"
    ELSE ""

\* the strcmp chain of mqttCallback; "" when no branch matches
MatchReason(reason) ==
    IF reason = "Maintenance Required" \/ reason = "Maintenance"
    THEN "Maintenance Required"
    ELSE IF reason = "Quality Issue" THEN "Quality Issue"
    ELSE IF reason = "Material Issue" THEN "Material Issue"
    ELSE IF reason = "Tool Change" THEN "Tool Change"
    ELSE ""

\* ------------------------------------------------------------------------
\* Monitoring application: the reason buttons and the command they publish
\* ------------------------------------------------------------------------
\* variant: the application is configured to send the simplified keys
useFullNamesForESP32_Keys == FALSE

useFullNamesForESP32 == TRUE

\* StopReasons.reasons: key -> display label, in the order of the map
reasonKeys == <<"maintenance", "material", "tool_change", "quality">>

reasons ==
    [k \in {reasonKeys[i] : i \in 1..Len(reasonKeys)} |->
        IF k = "maintenance" THEN "Maintenance Required"
        ELSE IF k = "material" THEN "Material Issue"
        ELSE IF k = "tool_change" THEN "Tool Change"
        ELSE "Quality Issue"]

exactESP32Strings ==
    [l \in {"Maintenance Required", "Material Issue", "Tool Change", "Quality Issue"}
        |-> l]

\* one reason button per display label
displayLabels == {reasons[k] : k \in DOMAIN reasons}

\* firstWhere over the entries of `reasons`, orElse the key 'quality'
getESP32Value(label) ==
    IF useFullNamesForESP32
    THEN IF label \in DOMAIN exactESP32Strings THEN exactESP32Strings[label] ELSE label
    ELSE IF \E i \in 1..Len(reasonKeys) : reasons[reasonKeys[i]] = label
         THEN reasonKeys[CHOOSE i \in 1..Len(reasonKeys) :
                           /\ reasons[reasonKeys[i]] = label
                           /\ \A j \in 1..(i - 1) : reasons[reasonKeys[j]] # label]
         ELSE "quality"

\* the command sendReason publishes, as mqttCallback parses it
sendReason(label) ==
    [parse |-> TRUE, command |-> "select_reason", reason |-> getESP32Value(label)]

\* String.toUpperCase() on the state texts a status payload may carry
toUpperCase(s) ==
    IF s \in {"running", "Running", "RUNNING"} THEN "RUNNING"
    ELSE IF s \in {"waiting_for_reason", "WAITING_FOR_REASON"} THEN "WAITING_FOR_REASON"
    ELSE IF s \in {"idle", "IDLE"} THEN "IDLE"
    ELSE IF s = "stopped" THEN "STOPPED"
    ELSE s

\* _updatePressState: the switch over stateString.toUpperCase()
updatePressState(stateString) ==
    IF toUpperCase(stateString) = "RUNNING" THEN "running"
    ELSE IF toUpperCase(stateString) = "WAITING_FOR_REASON" THEN "waiting"
    ELSE "idle"

\* payloads on the status topic: data['press1'] is a state text, or the
\* key is missing (nullptr), or the payload is not JSON
StatusPayloads ==
    [parse : {TRUE},
     press1 : {"IDLE", "RUNNING", "WAITING_FOR_REASON", "running", "STOPPED", nullptr}]
      \cup {[parse |-> FALSE, press1 |-> nullptr]}

NoPayload == [parse |-> FALSE, press1 |-> ""]

\* ------------------------------------------------------------------------
\* Debounce: the common head of the five button handlers
\* ------------------------------------------------------------------------
DebounceTime(ch, reading, t) ==
    IF reading # lastButtonState[ch] THEN t ELSE lastDebounceTime[ch]

\* variant: the comparison with the stable level is missing
DebounceCommit_EveryCall(ch, reading, t) ==
    Sub32Gt(t, DebounceTime(ch, reading, t), debounceDelay)

DebounceCommit(ch, reading, t) ==
    /\ Sub32Gt(t, DebounceTime(ch, reading, t), debounceDelay)
    /\ reading # buttonState[ch]

Sample(ch, reading) ==
    /\ lastDebounceTime' = [lastDebounceTime EXCEPT ![ch] = DebounceTime(ch, reading, now)]
    /\ buttonState' = IF DebounceCommit(ch, reading, now)
                      THEN [buttonState EXCEPT ![ch] = reading]
                      ELSE buttonState
    /\ lastButtonState' = [lastButtonState EXCEPT ![ch] = reading]

Advance(held, d) ==
    [ch \in Channels |-> Min(held[ch] + d, debounceDelay + 1)]

\* a step that reads no pin takes d ms
Elapse(E, d) ==
    /\ rawHeld' = IF E.track THEN Advance(rawHeld, d) ELSE rawHeld
    /\ UNCHANGED <<rawLevel, rawState>>

\* level presented by the pin at this pass over the handler, which then
\* takes d ms to return
Present(E, ch, reading, d) ==
    IF E.track
    THEN /\ rawLevel' = [rawLevel EXCEPT ![ch] = reading]
         /\ rawHeld' = Advance([rawHeld EXCEPT ![ch] = IF reading # rawLevel[ch] THEN 0
                                                        ELSE rawHeld[ch]], d)
         /\ rawState' = [rawState EXCEPT ![ch] = IF reading # rawLevel[ch]
                                                  THEN pressState
                                                  ELSE rawState[ch]]
    ELSE UNCHANGED rawVars

\* The operator uses the reason buttons of E.driven: any of them at any
\* time when E.together, otherwise one of them in each run (a reason pin
\* presents LOW only while the other three have never left HIGH).
\* A Start/Stop button that does not bounce changes level only once its
\* last level is committed.
Unused(ch) ==
    /\ rawLevel[ch] = HIGH
    /\ lastButtonState[ch] = HIGH
    /\ buttonState[ch] = HIGH
    /\ lastDebounceTime[ch] = 0

Offered(E, ch) ==
    IF ch \in ReasonChannels
    THEN IF ch \in E.driven
            /\ (E.together \/ \A c \in ReasonChannels \ {ch} : Unused(c))
         THEN Level
         ELSE {HIGH}
    ELSE IF ~E.bounce /\ lastButtonState[ch] # buttonState[ch]
    THEN {lastButtonState[ch]}
    ELSE Level

Readings(E, ch) == Offered(E, ch) \cap E.hold[ch]

\* ------------------------------------------------------------------------
\* Init and setup()
\* ------------------------------------------------------------------------
Init ==
    /\ pc = "setup"
    /\ now = 0
    /\ pressState = IDLE
    /\ pressStartTime = 0
    /\ pressStopTime = 0
    /\ authToken = ""
    /\ buttonState = [ch \in Channels |-> HIGH]
    /\ lastButtonState = [ch \in Channels |-> HIGH]
    /\ lastDebounceTime = [ch \in Channels |-> 0]
    /\ rawLevel = [ch \in Channels |-> HIGH]
    /\ rawHeld = [ch \in Channels |-> 0]
    /\ rawState = [ch \in Channels |-> IDLE]
    /\ client = "null"
    /\ isConnected = FALSE
    /\ appPressState = "idle"
    /\ connectionMessage = "Disconnected"
    /\ connectionTimer = FALSE
    /\ listening = FALSE
    /\ inbox = NoPayload
    /\ sent = NoMessage
    /\ lastBlinkTime = 0
    /\ ledState = LOW
    /\ redLed = LOW
    /\ greenLed = LOW
    /\ lastMQTTPublish = 0
    /\ lastTokenRefresh = 0
    /\ wifi = FALSE
    /\ passMoves = <<>>
    /\ goal = NoGoal
    /\ lap = <<>>
    /\ lastRefreshAttempt = Never
    /\ lastMove = Never
    /\ ticked = 0
    /\ out = <<>>
    /\ op = Step("boot", "", NoMessage, FALSE)

discoverAlphaBaseCollections(tok) == <<"discover">>

\* connectMQTT entered at t with the broker connection lost; run holds
\* the answers of mqttClient.connect() in the order given: an accepted
\* connect subscribes and publishes the status, a refused one waits
\* mqttRetryDelay.  The loop is left when mqttClient.connected() holds,
\* after the last accepted connect of the run; an accepted connect that
\* is followed by another answer was dropped at once; a run that ends on
\* a refused connect is a broker that refuses from then on, and the call
\* does not return (back is FALSE).
RECURSIVE connectMQTT(_, _, _)
connectMQTT(run, state, t) ==
    IF run = <<>> THEN [out |-> <<>>, end |-> t, back |-> TRUE]
    ELSE IF Head(run)
    THEN LET r == connectMQTT(Tail(run), state, t)
         IN  [out |-> <<publishStatusMQTT(state, t)>> \o r.out,
              end |-> r.end, back |-> r.back]
    ELSE IF Tail(run) = <<>>
    THEN [out |-> <<>>, end |-> t, back |-> FALSE]
    ELSE connectMQTT(Tail(run), state, t + mqttRetryDelay)

\* setup(): pins, WiFi, login, connectMQTT (no connection yet: it connects
\* and publishes the status); t is millis() when connectMQTT is called.
\* setup() runs after power-up and again when the chip restarts after a
\* fault: the globals hold their initial values again (part_002:22-56),
\* millis() starts anew, the pins present what the operator holds.
Setup(E) ==
    /\ pc = "setup" \/ (pc = "crashed" /\ E.restart)
    /\ \E resp \in E.auth, t \in E.boot, run \in E.connects :
         LET lg == loginAlphaBase("", resp)
             mq == connectMQTT(run, IDLE, t)
         IN  /\ authToken' = lg.token
             /\ out' = lg.trace
                        \o (IF lg.ok THEN <<discoverAlphaBaseCollections(lg.token)>> ELSE <<>>)
                        \o mq.out
             /\ now' = mq.end
             /\ pc' = IF mq.back THEN "net" ELSE "broker"
    /\ pressState' = IDLE
    /\ pressStartTime' = 0
    /\ pressStopTime' = 0
    /\ buttonState' = [ch \in Channels |-> HIGH]
    /\ lastButtonState' = [ch \in Channels |-> HIGH]
    /\ lastDebounceTime' = [ch \in Channels |-> 0]
    /\ rawHeld' = IF E.track THEN Advance(rawHeld, bootDelay) ELSE rawHeld
    /\ lastBlinkTime' = 0
    /\ ledState' = LOW
    /\ redLed' = HIGH
    /\ greenLed' = LOW
    /\ lastMQTTPublish' = 0
    /\ lastTokenRefresh' = 0
    /\ lastRefreshAttempt' = Never
    /\ wifi' = TRUE
    /\ passMoves' = <<>>
    /\ lastMove' = Never
    /\ op' = Step("setup", "", NoMessage, FALSE)
    /\ UNCHANGED <<rawLevel, rawState, goal, lap, ticked, appVars>>

\* millis() advances between two passes of loop(); the link may come and
\* go meanwhile
Tick(E) ==
    /\ pc = "net"
    /\ E.tick
    /\ ticked < E.ticks
    /\ ticked' = ticked + 1
    /\ now' = now + E.step
    /\ wifi' \in E.link
    /\ Elapse(E, E.step)
    /\ UNCHANGED <<pc, pressVars, authToken, debounceVars, ledVars,
                   periodicVars, passMoves, cycleVars, appVars,
                   out, op>>

\* ------------------------------------------------------------------------
\* loop(): connections, MQTT, web server
\* ------------------------------------------------------------------------
\* `if (WiFi.status() != WL_CONNECTED) connectToWiFi();` polls the link
\* and waits wifiRetryDelay after every poll that finds it down; loop()
\* goes on when a poll finds the link up.  Then
\* `if (!mqttClient.connected()) connectMQTT();` when the broker
\* connection is lost; loop() goes on when connectMQTT returns.
MaintainConnections(E) ==
    /\ pc = "net"
    /\ E.pass
    /\ \E polls \in (IF wifi THEN {0} ELSE E.polls), lost \in E.flaky :
         IF polls = Forever
         THEN /\ out' = <<>>
              /\ op' = Step("connectToWiFi", "", NoMessage, FALSE)
              /\ pc' = "wifi"
              /\ UNCHANGED <<now, wifi, ticked, rawVars>>
         ELSE \E run \in (IF lost THEN E.connects ELSE {<<>>}) :
                LET t == now + polls * wifiRetryDelay
                    mq == connectMQTT(run, pressState, t)
                IN  /\ mq.end = t \/ ticked < E.ticks
                    /\ ticked' = IF mq.end = t THEN ticked ELSE ticked + 1
                    /\ now' = mq.end
                    /\ wifi' = TRUE
                    /\ Elapse(E, mq.end - now)
                    /\ out' = mq.out
                    /\ op' = Step(IF lost THEN "connectMQTT" ELSE "connected", "",
                                  NoMessage, FALSE)
                    /\ pc' = IF mq.back THEN "mqtt" ELSE "broker"
    /\ UNCHANGED <<pressVars, authToken, debounceVars, ledVars,
                   periodicVars, passMoves, cycleVars, appVars>>

\* mqttClient.loop() with nothing to deliver
MqttIdle(E) ==
    /\ pc = "mqtt"
    /\ E.quiet
    /\ out' = <<>>
    /\ op' = Step("mqttLoop", "", NoMessage, FALSE)
    /\ pc' = "web"
    /\ UNCHANGED <<now, pressVars, authToken, debounceVars, rawVars, ledVars, periodicVars,
                   linkVars, passMoves, cycleVars, appVars>>

\* strcmp on a null pointer: the callback faults (pc "crashed", from where
\* setup() runs again when the chip restarts), or the comparison happens
\* to yield "different"
mqttCallback(E) ==
    /\ pc = "mqtt"
    /\ \E msg \in E.msgs :
         /\ op' = Step("mqttCallback", "", msg, FALSE)
         /\ IF ~AcceptsReason(pressState) \/ ~msg.parse
            THEN /\ pc' = "web"
                 /\ out' = <<>>
                 /\ UNCHANGED <<now, rawVars, pressVars, authToken>>
            ELSE IF msg.command = nullptr
                    \/ (msg.command = "select_reason" /\ msg.reason = nullptr)
            THEN /\ pc' \in {"web", "crashed"}
                 /\ out' = <<>>
                 /\ UNCHANGED <<now, rawVars, pressVars, authToken>>
            ELSE IF msg.command = "select_reason" /\ MatchReason(msg.reason) # ""
            THEN \E ars \in E.alert, rs \in E.log :
                   LET r == ReasonSelected(MatchReason(msg.reason), authToken,
                                           pressStartTime, pressStopTime, now, ars, rs)
                   IN  /\ pressState' = r.state
                       /\ authToken' = r.token
                       /\ out' = r.out
                       /\ now' = r.end
                       /\ Elapse(E, r.end - now)
                       /\ pc' = "web"
                       /\ UNCHANGED <<pressStartTime, pressStopTime>>
            ELSE /\ pc' = "web"
                 /\ out' = <<>>
                 /\ UNCHANGED <<now, rawVars, pressVars, authToken>>
    /\ Moved("mqttCallback")
    /\ UNCHANGED <<debounceVars, ledVars, periodicVars, linkVars>>

\* server.handleClient(): nothing pending, or GET /status
handleGetStatus(E) ==
    /\ pc = "web"
    /\ \E request \in E.flaky :
         /\ out' = IF request THEN <<<<"http", 200, StateStr(pressState), now \div 1000>>>>
                   ELSE <<>>
         /\ op' = Step(IF request THEN "handleGetStatus" ELSE "handleClient", "",
                       NoMessage, FALSE)
    /\ pc' = StartStop
    /\ UNCHANGED <<now, pressVars, authToken, debounceVars, rawVars, ledVars, periodicVars,
                   linkVars, passMoves, cycleVars, appVars>>

\* ------------------------------------------------------------------------
\* loop(): the five button handlers
\* ------------------------------------------------------------------------
handleStartStopButton(E) ==
    /\ pc = StartStop
    /\ \E reading \in Readings(E, StartStop) :
         /\ Sample(StartStop, reading)
         /\ op' = Step("handleStartStopButton", reading, NoMessage,
                       DebounceCommit(StartStop, reading, now))
         /\ IF DebounceCommit(StartStop, reading, now) /\ reading = LOW
            THEN \E rs \in E.log :
                   LET r == StartStopPressed(pressState, authToken, pressStartTime,
                                             pressStopTime, now, rs)
                   IN  /\ pressState' = r.state
                       /\ pressStartTime' = r.start
                       /\ pressStopTime' = r.stop
                       /\ authToken' = r.token
                       /\ out' = r.out
                       /\ now' = r.end
                       /\ Present(E, StartStop, reading, r.end - now)
            ELSE /\ out' = <<>>
                 /\ Present(E, StartStop, reading, 0)
                 /\ UNCHANGED <<now, pressVars, authToken>>
    /\ pc' = Maintenance
    /\ Moved("handleStartStopButton")
    /\ UNCHANGED <<ledVars, periodicVars, linkVars>>

\* `if (pressState != WAITING_FOR_REASON) return;` : the pin is not read
ReasonButtonGated(E, ch, name) ==
    /\ ~AcceptsReason(pressState)
    /\ IF E.track
       THEN \E level \in Readings(E, ch) :
              /\ Present(E, ch, level, 0)
              /\ op' = Step(name, level, NoMessage, FALSE)
       ELSE /\ UNCHANGED rawVars
            /\ op' = Step(name, "", NoMessage, FALSE)
    /\ out' = <<>>
    /\ UNCHANGED <<now, pressVars, authToken, debounceVars>>

ReasonButtonRead(E, ch, name) ==
    /\ AcceptsReason(pressState)
    /\ \E reading \in Readings(E, ch) :
         /\ Sample(ch, reading)
         /\ op' = Step(name, reading, NoMessage, DebounceCommit(ch, reading, now))
         /\ IF DebounceCommit(ch, reading, now) /\ reading = LOW
            THEN \E ars \in E.alert, rs \in E.log :
                   LET r == ReasonSelected(ButtonReason(ch), authToken,
                                           pressStartTime, pressStopTime, now, ars, rs)
                   IN  /\ pressState' = r.state
                       /\ authToken' = r.token
                       /\ out' = r.out
                       /\ now' = r.end
                       /\ Present(E, ch, reading, r.end - now)
                       /\ UNCHANGED <<pressStartTime, pressStopTime>>
            ELSE /\ out' = <<>>
                 /\ Present(E, ch, reading, 0)
                 /\ UNCHANGED <<now, pressVars, authToken>>

\* common body of handleMaintenanceButton .. handleToolChangeButton
ReasonButton(E, ch, name, next) ==
    /\ pc = ch
    /\ \/ ReasonButtonGated(E, ch, name)
       \/ ReasonButtonRead(E, ch, name)
    /\ pc' = next
    /\ Moved(name)
    /\ UNCHANGED <<ledVars, periodicVars, linkVars>>

handleMaintenanceButton(E) ==
    ReasonButton(E, Maintenance, "handleMaintenanceButton", Quality)

handleQualityButton(E) ==
    ReasonButton(E, Quality, "handleQualityButton", Material)

handleMaterialButton(E) ==
    ReasonButton(E, Material, "handleMaterialButton", ToolChange)

handleToolChangeButton(E) ==
    ReasonButton(E, ToolChange, "handleToolChangeButton", "leds")

\* ------------------------------------------------------------------------
\* loop(): LEDs and periodic work
\* ------------------------------------------------------------------------
Not(l) == IF l = LOW THEN HIGH ELSE LOW

\* variant: while a reason is awaited both LEDs blink in phase
updateLEDs_InPhase(E) ==
    /\ \/ /\ pc = "leds"
          /\ IF pressState = IDLE
             THEN /\ redLed' = HIGH
                  /\ pc' = "green"
                  /\ UNCHANGED <<lastBlinkTime, ledState>>
             ELSE IF pressState = RUNNING
             THEN /\ redLed' = LOW
                  /\ IF Sub32Ge(now, lastBlinkTime, blinkInterval)
                     THEN /\ lastBlinkTime' = now
                          /\ ledState' = Not(ledState)
                          /\ pc' = "green"
                     ELSE /\ pc' = "periodic"
                          /\ UNCHANGED <<lastBlinkTime, ledState>>
             ELSE IF Sub32Ge(now, lastBlinkTime, blinkInterval)
                  THEN /\ lastBlinkTime' = now
                       /\ ledState' = Not(ledState)
                       /\ redLed' = Not(ledState)
                       /\ pc' = "green"
                  ELSE /\ pc' = "periodic"
                       /\ UNCHANGED <<lastBlinkTime, ledState, redLed>>
          /\ UNCHANGED greenLed
       \/ /\ pc = "green"
          /\ greenLed' = IF pressState = IDLE THEN LOW
                         ELSE IF pressState = RUNNING THEN ledState
                         ELSE ledState
          /\ pc' = "periodic"
          /\ UNCHANGED <<lastBlinkTime, ledState, redLed>>
    /\ out' = <<>>
    /\ op' = Step("updateLEDs", "", NoMessage, FALSE)
    /\ UNCHANGED <<now, pressVars, authToken, debounceVars, rawVars, periodicVars,
                   linkVars, passMoves, cycleVars, appVars>>

\* updateLEDs(): the pins are written one after the other.  The first step
\* is the call up to its first digitalWrite (the red pin), with the blink
\* test and the toggle of ledState that precede it; the second step, at
\* pc = "green", is the digitalWrite of the green pin, which follows in
\* Idle and whenever the blink has toggled.
updateLEDs(E) ==
    /\ \/ /\ pc = "leds"
          /\ IF pressState = IDLE
             THEN /\ redLed' = HIGH
                  /\ pc' = "green"
                  /\ UNCHANGED <<lastBlinkTime, ledState>>
             ELSE IF pressState = RUNNING
             THEN /\ redLed' = LOW
                  /\ IF Sub32Ge(now, lastBlinkTime, blinkInterval)
                     THEN /\ lastBlinkTime' = now
                          /\ ledState' = Not(ledState)
                          /\ pc' = "green"
                     ELSE /\ pc' = "periodic"
                          /\ UNCHANGED <<lastBlinkTime, ledState>>
             ELSE IF Sub32Ge(now, lastBlinkTime, blinkInterval)
                  THEN /\ lastBlinkTime' = now
                       /\ ledState' = Not(ledState)
                       /\ redLed' = Not(ledState)
                       /\ pc' = "green"
                  ELSE /\ pc' = "periodic"
                       /\ UNCHANGED <<lastBlinkTime, ledState, redLed>>
          /\ UNCHANGED greenLed
       \/ /\ pc = "green"
          /\ greenLed' = IF pressState = IDLE THEN LOW
                         ELSE IF pressState = RUNNING THEN ledState
                         ELSE Not(ledState)
          /\ pc' = "periodic"
          /\ UNCHANGED <<lastBlinkTime, ledState, redLed>>
    /\ out' = <<>>
    /\ op' = Step("updateLEDs", "", NoMessage, FALSE)
    /\ UNCHANGED <<now, pressVars, authToken, debounceVars, rawVars, periodicVars,
                   linkVars, passMoves, cycleVars, appVars>>

\* heartbeat and periodic token refresh, both against currentMillis, the
\* one reading of millis() after updateLEDs; the refresh request blocks
\* for d ms.  A refresh that fails is due again in the next pass: the
\* failures are counted with the steps of millis().
PeriodicWork(E) ==
    /\ pc = "periodic"
    /\ LET currentMillis == now
           beat == Sub32Ge(currentMillis, lastMQTTPublish, mqttPublishInterval)
           hb == IF beat THEN <<publishStatusMQTT(pressState, currentMillis)>> ELSE <<>>
       IN  /\ lastMQTTPublish' = IF beat THEN currentMillis ELSE lastMQTTPublish
           /\ IF authToken # ""
                 /\ Sub32Ge(currentMillis, lastTokenRefresh, tokenRefreshInterval)
              THEN \E resp \in E.renew, d \in E.delay :
                     LET rf == refreshAlphaBaseToken(authToken, resp)
                     IN  /\ rf.ok \/ ticked < E.ticks
                         /\ ticked' = IF rf.ok THEN ticked ELSE ticked + 1
                         /\ authToken' = rf.token
                         /\ lastTokenRefresh' = IF rf.ok THEN currentMillis
                                                ELSE lastTokenRefresh
                         /\ lastRefreshAttempt' = currentMillis
                         /\ out' = hb \o rf.trace
                         /\ now' = currentMillis + d
                         /\ Elapse(E, d)
              ELSE /\ out' = hb
                   /\ UNCHANGED <<now, rawVars, authToken, lastTokenRefresh,
                                  lastRefreshAttempt, ticked>>
    /\ op' = Step("periodic", "", NoMessage, FALSE)
    /\ pc' = "net"
    /\ passMoves' = <<>>
    /\ UNCHANGED <<pressVars, debounceVars, ledVars, wifi, cycleVars, appVars>>

\* ------------------------------------------------------------------------
\* Specifications
\* ------------------------------------------------------------------------
\* the steps of setup() and loop()
Firmware(E) ==
    \/ Setup(E)
    \/ MaintainConnections(E)
    \/ MqttIdle(E)
    \/ mqttCallback(E)
    \/ handleGetStatus(E)
    \/ handleStartStopButton(E)
    \/ handleMaintenanceButton(E)
    \/ handleQualityButton(E)
    \/ handleMaterialButton(E)
    \/ handleToolChangeButton(E)
    \/ updateLEDs(E)
    \/ PeriodicWork(E)

Loop(E) ==
    \/ Tick(E)
    \/ Firmware(E)

\* the firmware in the plant
Next == Loop(Plant)

Spec == Init /\ [][Next]_vars

\* the firmware against every answer of the backend
NextLog == Loop(Cascade)

SpecLog == Init /\ [][NextLog]_vars

\* the firmware with the pins recorded at every pass
NextPins == Loop(Bench)

SpecPins == Init /\ [][NextPins]_vars

\* the firmware with two reason buttons pressed together
NextPanel == Loop(Panel)

SpecPanel == Init /\ [][NextPanel]_vars

\* the firmware over a shift, millis() observed in long steps
NextShift == Loop(Shift)

SpecShift == Init /\ [][NextShift]_vars

\* the firmware with a WiFi link that comes and goes; loop() is called
\* again and again, and a step of it that can be taken is taken
NextOutage == Loop(Outage)

SpecOutage == Init /\ [][NextOutage]_vars /\ WF_vars(Firmware(Outage))

TypeOK ==
    /\ pressState \in {IDLE, RUNNING, WAITING_FOR_REASON}
    /\ now >= 0

\* ------------------------------------------------------------------------
\* Properties
\* ------------------------------------------------------------------------
PressStates == {IDLE, RUNNING, WAITING_FOR_REASON}

ReasonHandlers == {"handleMaintenanceButton", "handleQualityButton",
                   "handleMaterialButton", "handleToolChangeButton"}

Handler(ch) ==
    IF ch = StartStop THEN "handleStartStopButton"
    ELSE IF ch = Maintenance THEN "handleMaintenanceButton"
    ELSE IF ch = Quality THEN "handleQualityButton"
    ELSE IF ch = Material THEN "handleMaterialButton"
    ELSE "handleToolChangeButton"

\* the backend requests of the event log cascade, in the order made
LogTrace(s) == SelectSeq(s, LAMBDA e : e[1] \in {"submit", "refresh", "login"})

\* a step in which logEventToAlphaBase ran: it submitted or it gave up
LogCall(s) == Count(s, "submit") + Count(s, "gave_up") > 0

Recovered(e) == e = <<"refresh", TRUE>> \/ e = <<"login", TRUE>>

EventName(s) ==
    IF s = RUNNING THEN "STARTED"
    ELSE IF s = WAITING_FOR_REASON THEN "STOPPED"
    ELSE "REASON_SELECTED"

\* a debounced press of the channel was committed by the step
PressCommitted(ch) == buttonState[ch] = HIGH /\ buttonState'[ch] = LOW

\* C1: pressState starts Idle, is always Idle, Running or WaitingForReason,
\* and changes only Idle->Running and Running->WaitingForReason on a
\* debounced Start/Stop press and WaitingForReason->Idle on a reason
\* selected by a local reason button or a remote select_reason command.
C1_Transitions ==
    /\ pressState = IDLE
    /\ [](pressState \in PressStates)
    /\ [][pressState' # pressState =>
            \/ /\ pressState = IDLE /\ pressState' = RUNNING
               /\ op'.name = "handleStartStopButton" /\ PressCommitted(StartStop)
            \/ /\ pressState = RUNNING /\ pressState' = WAITING_FOR_REASON
               /\ op'.name = "handleStartStopButton" /\ PressCommitted(StartStop)
            \/ /\ pressState = WAITING_FOR_REASON /\ pressState' = IDLE
               /\ \/ \E ch \in ReasonChannels :
                       op'.name = Handler(ch) /\ PressCommitted(ch)
                  \/ op'.name = "mqttCallback" /\ op'.msg.command = "select_reason"]_vars

\* a full cycle closed by a remote reason selection
C1_Witness ==
    /\ op.name = "mqttCallback" /\ MatchReason(op.msg.reason) # ""
    /\ pressState = IDLE
    /\ pressStopTime > pressStartTime
    /\ lastMove > pressStopTime

\* C2: a reason trigger (one of the four reason handlers, or a delivered
\* command) while the state is Idle or Running changes nothing of the press
\* state and emits no notification, event or status record.
C2_ReasonIgnoredUnlessWaiting ==
    [][(pressState \in {IDLE, RUNNING}
          /\ op'.name \in ReasonHandlers \cup {"mqttCallback"}
          /\ pc' # pc)
       => /\ pressState' = pressState
          /\ out' = <<>>
          /\ UNCHANGED <<pressStartTime, pressStopTime, authToken>>]_vars

\* a valid select_reason command was delivered while the press was running
C2_Witness ==
    /\ op.name = "mqttCallback"
    /\ op.msg.command = "select_reason" /\ MatchReason(op.msg.reason) # ""
    /\ pressState = RUNNING
    /\ out = <<>>

\* C3: a debounced Start/Stop press while the state is WaitingForReason
\* leaves the state, pressStartTime and pressStopTime unchanged and emits
\* no status record and no event.
C3_StartStopIgnoredWhileWaiting ==
    [][(pressState = WAITING_FOR_REASON /\ op'.name = "handleStartStopButton"
          /\ pc' # pc)
       => /\ pressState' = WAITING_FOR_REASON
          /\ UNCHANGED <<pressStartTime, pressStopTime>>
          /\ out' = <<>>]_vars

\* a press was committed while waiting for the reason, with no effect
C3_Witness ==
    /\ op.name = "handleStartStopButton" /\ op.commit /\ op.reading = LOW
    /\ pressState = WAITING_FOR_REASON
    /\ out = <<>>

\* for how long the pin had presented the level that the step samples,
\* when it was sampled
HeldAtSample(ch) == IF rawLevel'[ch] = rawLevel[ch] THEN rawHeld[ch] ELSE 0

\* C4: on every channel a new stable level is committed only if the pin has
\* presented that same level, unchanged, for more than debounceDelay
\* immediately before the commit.
C4_CommitNeedsHeldLevel ==
    [][\A ch \in Channels :
         buttonState'[ch] # buttonState[ch]
         => /\ rawLevel'[ch] = buttonState'[ch]
            /\ HeldAtSample(ch) > debounceDelay]_vars

\* C5: while the level of a channel is still changing (it changed within
\* the last debounce window) the pass over its handler commits nothing, and
\* a committed level is the level the pin has settled on.
C5_NoCommitInsideBurst ==
    [][\A ch \in Channels :
         (pc = ch /\ op'.name = Handler(ch))
         => /\ HeldAtSample(ch) <= debounceDelay => ~op'.commit
            /\ op'.commit => buttonState'[ch] = rawLevel'[ch]]_vars

\* C6: one logEventToAlphaBase call makes at most 2 submissions, 1 refresh
\* and 1 login; a second submission directly follows a refresh or login
\* that succeeded, a successful refresh or login is followed by exactly one
\* submission, and the login directly follows the failed refresh.
C6_CascadeBounded ==
    LET tr == LogTrace(out)
    IN  LogCall(out)
        => /\ Count(out, "submit") <= 2
           /\ Count(out, "refresh") <= 1
           /\ Count(out, "login") <= 1
           /\ \A i \in 1..Len(tr) :
                /\ tr[i][1] = "login" => (i > 1 /\ tr[i-1] = <<"refresh", FALSE>>)
                /\ (tr[i][1] = "submit" /\ \E j \in 1..(i-1) : tr[j][1] = "submit")
                   => Recovered(tr[i-1])
                /\ Recovered(tr[i]) => (i + 1 = Len(tr) /\ tr[i+1][1] = "submit")

\* the first submission was rejected, the refresh succeeded, one retry
C6_Witness ==
    /\ Len(LogTrace(out)) = 3
    /\ LogTrace(out)[1][1] = "submit" /\ LogTrace(out)[1][3] = "unauthorized"
    /\ LogTrace(out)[2] = <<"refresh", TRUE>>
    /\ LogTrace(out)[3][1] = "submit"

\* C7: with an empty authToken, logging an event makes no submission, no
\* refresh and no login, and the event is given up.
C7_NoCredentialNoRequest ==
    [][(authToken = "" /\ pressState' # pressState)
       => /\ LogTrace(out') = <<>>
          /\ Count(out', "gave_up") = 1]_vars

\* C8: a first submission that fails for a reason other than HTTP 401 is
\* followed by no refresh, no login and no second submission.
C8_CascadeOnlyOn401 ==
    LET tr == LogTrace(out)
    IN  (tr # <<>> /\ tr[1][1] = "submit" /\ tr[1][3] = "failed")
        => Len(tr) = 1

\* two payloads for the same event: they differ at most in the timestamp,
\* which each attempt reads anew
SameEvent(p, q) ==
    /\ p.event_type = q.event_type
    /\ p.downtime_reason = q.downtime_reason
    /\ p.runtime_seconds = q.runtime_seconds

\* the cascade of C9: first submission rejected with 401, refresh failed,
\* login succeeded
ReloginScenario(tr) ==
    /\ Len(tr) >= 3
    /\ tr[1][1] = "submit" /\ tr[1][3] = "unauthorized"
    /\ tr[2] = <<"refresh", FALSE>>
    /\ tr[3] = <<"login", TRUE>>

\* C9 as stated: in that cascade logEvent makes exactly 2 submissions, 1
\* refresh and 1 login, and ends in success.
C9_ReloginEndsInSuccess ==
    ReloginScenario(LogTrace(out))
    => /\ Count(out, "submit") = 2
       /\ Count(out, "refresh") = 1
       /\ Count(out, "login") = 1
       /\ Count(out, "gave_up") = 0

\* C9 amended: in that cascade logEvent makes exactly 2 submissions (the
\* initial one and one retry of the same event after the login), 1 refresh
\* and 1 login, and ends in success exactly when the retry is accepted.
C9_ReloginRetriesOnce ==
    LET tr == LogTrace(out)
    IN  ReloginScenario(tr)
        => /\ Len(tr) = 4
           /\ tr[4][1] = "submit" /\ SameEvent(tr[4][2], tr[1][2])
           /\ tr[4][2].timestamp >= tr[1][2].timestamp
           /\ Count(out, "gave_up") = 0 <=> tr[4][3] = "ok"

\* the cascade ran to the login and the retry was accepted
C9_Witness ==
    /\ ReloginScenario(LogTrace(out))
    /\ Len(LogTrace(out)) = 4
    /\ LogTrace(out)[4][3] = "ok"
    /\ LogTrace(out)[4][2].timestamp > LogTrace(out)[1][2].timestamp
    /\ Count(out, "gave_up") = 0

\* C10: only a step that changes the press state submits, and only the
\* event of that step; nothing is submitted after an accepted submission,
\* after a retry that failed, or after refresh and login both failed.
C10_AtMostOnce ==
    [][/\ pressState' = pressState => Count(out', "submit") = 0
       /\ \A i \in 1..Len(out') :
            out'[i][1] = "submit"
            => /\ out'[i][2].event_type = EventName(pressState')
               /\ out'[i][2].timestamp >= now /\ out'[i][2].timestamp <= now'
               /\ (out'[i][3] = "ok"
                     \/ \E j \in 1..(i-1) : Recovered(out'[j]))
                  => \A k \in (i+1)..Len(out') : out'[k][1] # "submit"
       /\ \A i \in 1..Len(out') :
            out'[i] = <<"login", FALSE>>
            => \A k \in (i+1)..Len(out') : out'[k][1] # "submit"]_vars

\* an event was dropped after its retry failed
C10_Witness ==
    /\ Count(out, "submit") = 2
    /\ Count(out, "gave_up") = 1
    /\ \E i \in 1..Len(out) : Recovered(out[i])

\* C11: the credential is empty at boot and changes only in a step in which
\* a login or a refresh succeeded, and then to a token the backend issued;
\* a login answered without access_token leaves it as it was.
C11_CredentialOnlyFromIssuedToken ==
    /\ authToken = ""
    /\ [][authToken' # authToken
          => /\ authToken' \in Tokens
             /\ \E i \in 1..Len(out') : Recovered(out'[i])]_vars

CanonicalName(s) ==
    IF s = IDLE THEN "IDLE"
    ELSE IF s = RUNNING THEN "RUNNING"
    ELSE "WAITING_FOR_REASON"

\* C12: the step that commits a transition publishes exactly one status
\* record, and every status record published by any step (transition,
\* heartbeat, broker connect) names the state held when it is published.
C12_StatusNamesState ==
    [][/\ pressState' # pressState => Count(out', "status") = 1
       /\ \A i \in 1..Len(out') :
            out'[i][1] = "status" => out'[i][2] = CanonicalName(pressState')]_vars

\* the stop was committed and published as WAITING_FOR_REASON
C12_Witness ==
    /\ op.name = "handleStartStopButton" /\ op.commit
    /\ pressState = WAITING_FOR_REASON
    /\ Select(out, "status") = <<<<"status", "WAITING_FOR_REASON", pressStopTime>>>>
    /\ now > pressStopTime

\* C13: transitions follow the cycle Idle, Running, WaitingForReason from
\* Idle; the step that commits one hands exactly one event to the event
\* log, STARTED, STOPPED or REASON_SELECTED according to the state entered,
\* beside the status of that transition; no other step hands over an event.
C13_EventPerTransition ==
    /\ pressState = IDLE
    /\ [][/\ pressState' # pressState
             => /\ pressState' = (pressState + 1) % 3
                /\ LogCall(out')
                /\ Count(out', "gave_up") <= 1
                /\ Count(out', "status") = 1
                /\ \A i \in 1..Len(out') :
                     out'[i][1] = "submit"
                     => /\ out'[i][2].event_type = EventName(pressState')
                        /\ SameEvent(out'[i][2], Select(out', "submit")[1][2])
          /\ pressState' = pressState => ~LogCall(out')]_vars

\* a cycle was closed and its REASON_SELECTED event accepted
C13_Witness ==
    /\ pressState = IDLE
    /\ pressStopTime > pressStartTime
    /\ Count(out, "submit") = 1
    /\ Select(out, "submit")[1][2].event_type = "REASON_SELECTED"
    /\ Select(out, "submit")[1][3] = "ok"

CanonicalReasons == {"Maintenance Required", "Quality Issue", "Material Issue",
                     "Tool Change"}

LogKinds == {"submit", "refresh", "login", "gave_up"}

AlertKinds == {"email", "telegram"}

\* C14: a start or a stop records its timestamp, publishes the status and
\* then submits the STARTED / STOPPED event (the STOPPED event already
\* computed from the recorded stop time); a reason selection dispatches the
\* alerts, then submits REASON_SELECTED carrying the reason, then publishes
\* the IDLE status.
C14_EffectOrder ==
    [][/\ (pressState' # pressState /\ pressState' # IDLE)
          => /\ out'[1] = <<"status", CanonicalName(pressState'), now>>
             /\ \A i \in 2..Len(out') :
                  /\ out'[i][1] \in LogKinds
                  /\ out'[i][1] = "submit" => out'[i][2].timestamp >= now
             /\ pressState' = RUNNING => pressStartTime' = now
             /\ pressState' = WAITING_FOR_REASON
                => /\ pressStopTime' = now
                   /\ \A i \in 2..Len(out') :
                        out'[i][1] = "submit"
                        => out'[i][2].runtime_seconds
                             = (pressStopTime' - pressStartTime') \div 1000
       /\ (pressState' # pressState /\ pressState' = IDLE)
          => /\ out'[Len(out')] = <<"status", "IDLE", now'>>
             /\ \A i \in 1..(Len(out') - 1) :
                  /\ out'[i][1] \in AlertKinds \cup LogKinds
                  /\ out'[i][1] \in LogKinds
                     => \A j \in (i + 1)..(Len(out') - 1) : out'[j][1] \in LogKinds
                  /\ out'[i][1] = "submit"
                     => /\ out'[i][2].event_type = "REASON_SELECTED"
                        /\ out'[i][2].timestamp <= now'
                        /\ out'[i][2].downtime_reason \in CanonicalReasons
                        /\ \A j \in 1..(i - 1) :
                             out'[j][1] \in AlertKinds
                             => out'[j][2] = out'[i][2].downtime_reason]_vars

\* a reason selection with alerts, event and status, in that order
C14_Witness ==
    /\ pressState = IDLE
    /\ Len(out) = 4
    /\ out[1][1] = "email" /\ out[2][1] = "telegram"
    /\ out[3][1] = "submit" /\ out[4][1] = "status"
    /\ out[3][2].timestamp < out[4][3]

QualityCommand ==
    [parse |-> TRUE, command |-> "select_reason", reason |-> "Quality Issue"]

\* the command {"command":"select_reason","reason":"Quality Issue"} is
\* delivered while the state is WaitingForReason
QualityCommandStep ==
    /\ pressState = WAITING_FOR_REASON
    /\ pc = "mqtt" /\ pc' # pc
    /\ op'.name = "mqttCallback" /\ op'.msg = QualityCommand

\* C15 as stated: that command makes the state Idle, causes exactly one
\* attempt on each of the two notification channels and publishes IDLE.
C15_QualityCommandNotifies ==
    [][QualityCommandStep
       => /\ pressState' = IDLE
          /\ Count(out', "email") = 1
          /\ Count(out', "telegram") = 1
          /\ Select(out', "status") = <<<<"status", "IDLE", now'>>>>]_vars

\* C15 amended: that command makes the state Idle and publishes IDLE; each
\* notification channel is attempted exactly once when a credential is
\* held as the command arrives, and not at all when none is held.
C15_QualityCommandNotifiesIfAuthenticated ==
    [][QualityCommandStep
       => /\ pressState' = IDLE
          /\ Count(out', "email") = (IF authToken = "" THEN 0 ELSE 1)
          /\ Count(out', "telegram") = (IF authToken = "" THEN 0 ELSE 1)
          /\ \A i \in 1..Len(out') :
               out'[i][1] \in AlertKinds => out'[i][2] = "Quality Issue"
          /\ Select(out', "status") = <<<<"status", "IDLE", now'>>>>]_vars

\* the command was processed with a credential held: both alerts went out
C15_Witness ==
    /\ op.name = "mqttCallback" /\ op.msg = QualityCommand
    /\ pressState = IDLE
    /\ Count(out, "email") = 1 /\ Count(out, "telegram") = 1
    /\ Count(out, "status") = 1

\* other names under which mqttCallback knows each stop reason: the short
\* form in its first comparison; the other three comparisons have none
KnownAliases(r) ==
    IF r = "Maintenance Required" THEN {"Maintenance"} ELSE {}

\* the reason texts carried by the commands of the model
ReasonTexts == {m.reason : m \in Messages} \ {nullptr}

\* C16: while a reason is awaited, the parser maps each canonical reason
\* string, and at least one known alias of it, to that reason, and matches
\* no other reason text.
C16_CanonicalAndAliasAccepted ==
    pressState = WAITING_FOR_REASON
    => /\ \A r \in CanonicalReasons :
            /\ MatchReason(r) = r
            /\ \E a \in KnownAliases(r) : MatchReason(a) = r
       /\ \A x \in ReasonTexts :
            (\A r \in CanonicalReasons : x # r /\ x \notin KnownAliases(r))
            => MatchReason(x) = ""

\* the reason a step selected, as its outbound payloads carry it
PayloadReasons(s) ==
    {s[i][2].downtime_reason : i \in {j \in 1..Len(s) : s[j][1] = "submit"}}
      \cup {s[i][2] : i \in {j \in 1..Len(s) : s[j][1] \in AlertKinds}}

\* C17: for every stop reason the local button, the remote command with the
\* canonical string and the remote command with a known alias select the
\* same canonical string: the parser maps the string the button passes, and
\* some alias of it, to that string, and every selection carries the one
\* canonical string of its trigger in the event and in both alerts.
C17_LocalRemoteSameReason ==
    /\ [](pressState = WAITING_FOR_REASON
          => \A ch \in ReasonChannels :
               /\ MatchReason(ButtonReason(ch)) = ButtonReason(ch)
               /\ \E a \in KnownAliases(ButtonReason(ch)) :
                    MatchReason(a) = ButtonReason(ch))
    /\ [][(pressState = WAITING_FOR_REASON /\ pressState' = IDLE)
          => /\ \A ch \in ReasonChannels :
                  op'.name = Handler(ch)
                  => PayloadReasons(out') \subseteq {ButtonReason(ch)}
             /\ op'.name = "mqttCallback"
                => \E r \in CanonicalReasons :
                     /\ op'.msg.reason \in {r} \cup KnownAliases(r)
                     /\ PayloadReasons(out') \subseteq {r}]_vars

\* a message that asks for no reason selection: unparseable, a command
\* other than select_reason (or none), or a reason text (or none) that no
\* comparison of the strcmp chain matches
Unrecognized(m) ==
    \/ ~m.parse
    \/ m.command # "select_reason"
    \/ MatchReason(m.reason) = ""

\* C18: such a message delivered in WaitingForReason is dropped: the
\* callback returns, the state stays WaitingForReason, the timestamps and
\* the credential are untouched and nothing is emitted.
C18_UnrecognizedDropped ==
    [][(pressState = WAITING_FOR_REASON /\ pc = "mqtt" /\ pc' # pc
          /\ op'.name = "mqttCallback" /\ Unrecognized(op'.msg))
       => /\ pc' = "web"
          /\ pressState' = WAITING_FOR_REASON
          /\ out' = <<>>
          /\ UNCHANGED <<pressStartTime, pressStopTime, authToken>>]_vars

\* a reason is selected by the step
ReasonStep == pressState = WAITING_FOR_REASON /\ pressState' = IDLE

\* C19: a reason selected while a credential is held sends the email alert
\* once and then the Telegram alert once, whatever either outcome, and
\* still submits the REASON_SELECTED event, enters Idle and publishes IDLE.
C19_BothAlertsOnce ==
    [][(ReasonStep /\ authToken # "")
       => /\ Len(out') >= 4
          /\ out'[1][1] = "email" /\ out'[2][1] = "telegram"
          /\ \A i \in 3..Len(out') : out'[i][1] \notin AlertKinds
          /\ out'[3][1] = "submit"
          /\ out'[3][2].event_type = "REASON_SELECTED"
          /\ out'[Len(out')] = <<"status", "IDLE", now'>>]_vars

\* both alerts failed, the event was submitted and IDLE published
C19_Witness ==
    /\ pressState = IDLE
    /\ Len(out) >= 4
    /\ out[1][1] = "email" /\ out[1][6] = FALSE
    /\ out[2][1] = "telegram" /\ out[2][5] = FALSE
    /\ out[3][1] = "submit"
    /\ out[Len(out)][1] = "status"

\* C20: a reason selected while no credential is held makes no alert
\* attempt at all, and still enters Idle and publishes IDLE.
C20_NoCredentialNoAlert ==
    [][(ReasonStep /\ authToken = "")
       => /\ \A i \in 1..Len(out') : out'[i][1] \notin AlertKinds
          /\ Select(out', "status") = <<<<"status", "IDLE", now'>>>>
          /\ out'[Len(out')][1] = "status"]_vars

\* a reason was selected without a credential: the event cascade began
\* with the refresh, no alert went out, IDLE was published
C20_Witness ==
    /\ pressState = IDLE
    /\ op.name \in ReasonHandlers \cup {"mqttCallback"}
    /\ LogTrace(out) # <<>> /\ LogTrace(out)[1][1] = "refresh"
    /\ Count(out, "email") = 0 /\ Count(out, "telegram") = 0
    /\ Count(out, "status") = 1

ReasonInputs == ReasonHandlers \cup {"mqttCallback"}

\* the reason a reason input stands for: the string its handler passes, or
\* what the strcmp chain makes of the command
TriggerReason(o) ==
    IF o.name = "mqttCallback" THEN MatchReason(o.msg.reason)
    ELSE IF o.name = "handleMaintenanceButton" THEN ButtonReason(Maintenance)
    ELSE IF o.name = "handleQualityButton" THEN ButtonReason(Quality)
    ELSE IF o.name = "handleMaterialButton" THEN ButtonReason(Material)
    ELSE ButtonReason(ToolChange)

\* the step of a reason input that dispatched alerts or handed an event to
\* the event log
Selection ==
    /\ pc' # pc /\ op'.name \in ReasonInputs
    /\ (LogCall(out') \/ Count(out', "email") + Count(out', "telegram") > 0)

\* C21: a step commits at most one transition; a reason input that selects
\* does so in WaitingForReason and ends the stay: one REASON_SELECTED event
\* with the reason of that input, at most one alert per channel, one IDLE
\* status, state Idle; after it no other reason input of the same pass
\* selects, so that a pass of loop() holds at most one selection, by the
\* first effective input in the order command, Maintenance, Quality,
\* Material, ToolChange.
C21_FirstReasonInputWins ==
    /\ [](Len(SelectSeq(passMoves, LAMBDA n : n \in ReasonInputs)) <= 1)
    /\ [][/\ pressState' # pressState => pressState' = (pressState + 1) % 3
          /\ Selection
             => /\ ReasonStep
                /\ SelectSeq(passMoves, LAMBDA n : n \in ReasonInputs) = <<>>
                /\ LogCall(out')
                /\ Count(out', "email") <= 1 /\ Count(out', "telegram") <= 1
                /\ Select(out', "status") = <<<<"status", "IDLE", now'>>>>
                /\ PayloadReasons(out') \subseteq {TriggerReason(op')}
                /\ authToken # "" => PayloadReasons(out') = {TriggerReason(op')}
                /\ \A i \in 1..Len(out') :
                     out'[i][1] = "submit" => out'[i][2].event_type = "REASON_SELECTED"]_vars

\* the Maintenance button selected the reason in a pass in which the
\* Quality button had also been held past the debounce window
C21_Witness ==
    /\ op.name = "handleQualityButton"
    /\ passMoves = <<"handleMaintenanceButton">>
    /\ rawLevel[Quality] = LOW /\ rawHeld[Quality] > debounceDelay
    /\ rawLevel[Maintenance] = LOW
    /\ pressState = IDLE

\* C22: within one pass of loop() at most one state transition is
\* committed.
C22_OneTransitionPerPass == Len(passMoves) <= 1

\* the step is a debounced Start/Stop press
StartStopPress ==
    /\ pc = StartStop /\ pc' # pc
    /\ op'.name = "handleStartStopButton" /\ op'.commit /\ op'.reading = LOW

\* the step is a reason selection: a debounced press of a reason button,
\* or a select_reason command with a reason the strcmp chain matches
ReasonTrigger ==
    /\ pc' # pc
    /\ \/ op'.name \in ReasonHandlers /\ op'.commit /\ op'.reading = LOW
       \/ /\ op'.name = "mqttCallback" /\ op'.msg.parse
          /\ op'.msg.command = "select_reason" /\ MatchReason(op'.msg.reason) # ""

\* C24: whatever credential is held (none, a valid one, a stale one) and
\* whatever the backend answers to the submission, the refresh, the login
\* and the alerts, a debounced Start/Stop press in Idle yields Running with
\* a RUNNING status published, a press in Running yields WaitingForReason,
\* a reason selection in WaitingForReason yields Idle, and loop() goes on
\* to its next step.
C24_OutcomeNeverSteersState ==
    [][/\ (StartStopPress /\ pressState = IDLE)
          => /\ pressState' = RUNNING
             /\ Select(out', "status") = <<<<"status", "RUNNING", now>>>>
             /\ pc' = Maintenance
       /\ (StartStopPress /\ pressState = RUNNING)
          => /\ pressState' = WAITING_FOR_REASON
             /\ Select(out', "status") = <<<<"status", "WAITING_FOR_REASON", now>>>>
             /\ pc' = Maintenance
       /\ (ReasonTrigger /\ pressState = WAITING_FOR_REASON)
          => /\ pressState' = IDLE
             /\ Select(out', "status") = <<<<"status", "IDLE", now'>>>>
             /\ pc' \in {"web", Quality, Material, ToolChange, "leds"}]_vars

\* no credential was held and refresh and login were refused: the press is
\* running, RUNNING was published and the STARTED event was given up
C24_Witness ==
    /\ op.name = "handleStartStopButton" /\ op.commit
    /\ pressState = RUNNING
    /\ authToken = ""
    /\ out = <<<<"status", "RUNNING", pressStartTime>>, <<"refresh", FALSE>>,
               <<"login", FALSE>>, <<"gave_up">>>>
    /\ now = pressStartTime + 2 * HttpDelay

\* the periodic work of the step attempted a refresh
PeriodicRefresh ==
    /\ pc = "periodic" /\ pc' # pc
    /\ Count(out', "refresh") = 1

\* millis() of the previous periodic attempt, or of boot when there was none
PreviousAttempt == IF lastRefreshAttempt = Never THEN 0 ELSE lastRefreshAttempt

\* C25: while a credential is held, the periodic work attempts a refresh
\* exactly when tokenRefreshInterval has elapsed since the previous
\* periodic attempt (since boot for the first one), whether that attempt
\* succeeded or failed, so that two consecutive periodic attempts are at
\* least tokenRefreshInterval apart.
C25_RefreshEveryInterval ==
    [][(pc = "periodic" /\ pc' # pc /\ authToken # "")
       => (PeriodicRefresh <=> now - PreviousAttempt >= tokenRefreshInterval)]_vars

\* the periodic work of the step published a heartbeat
Heartbeat ==
    /\ pc = "periodic" /\ pc' # pc
    /\ Select(out', "status") # <<>>

\* no transition in the heartbeat interval that ends now: the latest
\* change of pressState, if there was one, lies a full interval back
QuietInterval ==
    lastMove = Never \/ now - lastMove >= mqttPublishInterval

\* C26: the periodic work publishes a heartbeat only when a full heartbeat
\* interval has elapsed with no state transition in it, and always when
\* such an interval has elapsed since the previous heartbeat; the
\* heartbeat carries the current state.
C26_HeartbeatOnlyWhenQuiet ==
    [][/\ Heartbeat
          => /\ QuietInterval
             /\ Select(out', "status") = <<<<"status", CanonicalName(pressState), now>>>>
       /\ (pc = "periodic" /\ pc' # pc /\ QuietInterval
             /\ now - lastMQTTPublish >= mqttPublishInterval)
          => Heartbeat]_vars

\* the payloads submitted by the last step
Payloads == {out[i][2] : i \in {j \in 1..Len(out) : out[j][1] = "submit"}}

\* C27: a STOPPED payload carries runtime_seconds, the whole seconds of
\* (pressStopTime - pressStartTime) / 1000 of the run that just stopped;
\* STARTED and REASON_SELECTED payloads carry no runtime_seconds;
\* downtime_reason is present exactly in REASON_SELECTED payloads and is
\* the canonical reason that was selected.
C27_PayloadFields ==
    \A p \in Payloads :
      /\ p.event_type \in {"STARTED", "STOPPED", "REASON_SELECTED"}
      /\ p.event_type = "STOPPED"
         => /\ pressStartTime > 0
            /\ p.runtime_seconds = (pressStopTime - pressStartTime) \div 1000
            /\ p.runtime_seconds >= 0
      /\ p.event_type # "STOPPED" => p.runtime_seconds = -1
      /\ p.downtime_reason # "" <=> p.event_type = "REASON_SELECTED"
      /\ p.event_type = "REASON_SELECTED"
         => /\ p.downtime_reason \in CanonicalReasons
            /\ p.downtime_reason = TriggerReason(op)

\* a run of 900153 ms was stopped: its STOPPED payload carries 900 seconds
C27_Witness ==
    /\ pressState = WAITING_FOR_REASON
    /\ pressStopTime - pressStartTime = 2 * LongStep + HttpDelay
    /\ \E p \in Payloads :
         p.event_type = "STOPPED" /\ p.runtime_seconds = 900 /\ p.downtime_reason = ""

\* C28: a run interval is computed only from timestamps of one run:
\* pressStartTime is written by the start and pressStopTime by the stop of
\* the same run, and neither changes before the reason is selected, so
\* that while the reason is awaited 0 < pressStartTime <= pressStopTime and
\* the subtraction does not wrap; the interval in the STOPPED payload and
\* the interval in both alerts of the run are that same difference in
\* whole seconds.
C28_IntervalOfOneRun ==
    /\ [](pressState = WAITING_FOR_REASON
          => 0 < pressStartTime /\ pressStartTime <= pressStopTime)
    /\ [](pressState = RUNNING => 0 < pressStartTime /\ pressStartTime <= now)
    /\ [][/\ pressStartTime' # pressStartTime
             => pressState = IDLE /\ pressState' = RUNNING /\ pressStartTime' = now
          /\ pressStopTime' # pressStopTime
             => /\ pressState = RUNNING /\ pressState' = WAITING_FOR_REASON
                /\ pressStopTime' = now
          /\ \A i \in 1..Len(out') :
               /\ (out'[i][1] = "submit" /\ out'[i][2].runtime_seconds # -1)
                  => /\ pressState' = WAITING_FOR_REASON
                     /\ out'[i][2].runtime_seconds
                          = (pressStopTime' - pressStartTime') \div 1000
               /\ out'[i][1] = "email"
                  => /\ pressState = WAITING_FOR_REASON
                     /\ out'[i][3] = (pressStopTime - pressStartTime) \div 1000
                     /\ out'[i][4] * 60 + out'[i][5] = out'[i][3]
               /\ out'[i][1] = "telegram"
                  => /\ pressState = WAITING_FOR_REASON
                     /\ out'[i][3] * 60 + out'[i][4]
                          = (pressStopTime - pressStartTime) \div 1000]_vars

\* the reason of a run of 900153 ms was selected: both alerts report
\* 15 min 0 s
C28_Witness ==
    /\ pressState = IDLE
    /\ pressStopTime - pressStartTime = 2 * LongStep + HttpDelay
    /\ Len(out) >= 2
    /\ out[1][1] = "email" /\ out[1][3] = 900 /\ out[1][4] = 15 /\ out[1][5] = 0
    /\ out[2][1] = "telegram" /\ out[2][3] = 15 /\ out[2][4] = 0

\* the physical button that stands for the same stop reason as the
\* application's button with this label
PanelButton(label) ==
    IF label = reasons["maintenance"] THEN Maintenance
    ELSE IF label = reasons["quality"] THEN Quality
    ELSE IF label = reasons["material"] THEN Material
    ELSE ToolChange

\* C30: the command each of the four reason buttons of the application
\* publishes is accepted by mqttCallback in WaitingForReason and selects
\* the canonical reason of the corresponding physical button: the state
\* becomes Idle and the event and the alerts carry that reason.
C30_AppReasonsAccepted ==
    [][\A label \in displayLabels :
         (pressState = WAITING_FOR_REASON /\ pc = "mqtt" /\ pc' # pc
            /\ op'.name = "mqttCallback" /\ op'.msg = sendReason(label))
         => /\ MatchReason(sendReason(label).reason) = ButtonReason(PanelButton(label))
            /\ pressState' = IDLE
            /\ PayloadReasons(out') \subseteq {ButtonReason(PanelButton(label))}
            /\ authToken # ""
               => PayloadReasons(out') = {ButtonReason(PanelButton(label))}]_vars

\* the application's Tool Change button closed the stop: the alerts carry
\* "Tool Change"
C30_Witness ==
    /\ op.name = "mqttCallback" /\ op.msg = sendReason("Tool Change")
    /\ pressState = IDLE
    /\ Count(out, "email") = 1 /\ Count(out, "submit") >= 1
    /\ PayloadReasons(out) = {ButtonReason(ToolChange)}

\* the Start/Stop input has presented pressed for longer than the debounce
\* window, the press is idle and the edge is not yet committed
HeldPressed ==
    /\ pressState = IDLE
    /\ rawLevel[StartStop] = LOW /\ rawHeld[StartStop] > debounceDelay
    /\ buttonState[StartStop] = HIGH

\* C29: when the Start/Stop input is held pressed for longer than the
\* debounce window while the state is Idle, the state eventually becomes
\* Running (or the input is seen released first), also when the network
\* link is down and stays down.
C29_HeldPressStartsDespiteOutage ==
    HeldPressed ~> (pressState = RUNNING \/ rawLevel[StartStop] = HIGH)

\* ------------------------------------------------------------------------
\* An operator who works towards a complete cycle
\* ------------------------------------------------------------------------
\* a complete cycle closed with the reason of button ch, selected on the
\* panel or by remote command
Goals == [by : {"button", "command"}, ch : ReasonChannels]

\* the step selected the reason of the goal by the means of the goal
GoalStep(o) ==
    IF goal.by = "button"
    THEN o.name = Handler(goal.ch)
    ELSE /\ o.name = "mqttCallback"
         /\ MatchReason(o.msg.reason) = ButtonReason(goal.ch)

\* since the goal was set the press was started, stopped, and the stop
\* closed with the reason and by the means of the goal
CycleDone ==
    \E i \in 1..(Len(lap) - 2) :
      /\ lap[i].name = "handleStartStopButton"
      /\ lap[i + 1].name = "handleStartStopButton"
      /\ GoalStep(lap[i + 2])

\* a level read by a handler still waits for its debounce window to pass
Pending ==
    \E ch \in Channels :
      /\ lastButtonState[ch] # buttonState[ch]
      /\ ~Sub32Gt(now, lastDebounceTime[ch], debounceDelay)

\* the level the operator holds the button at: Start/Stop is pressed (after
\* having been released) to start and to stop, the reason button of the
\* goal to close the stop, everything else is left alone
Target(ch) ==
    IF CycleDone THEN HIGH
    ELSE IF ch = StartStop
    THEN IF pressState # WAITING_FOR_REASON /\ buttonState[ch] = HIGH THEN LOW ELSE HIGH
    ELSE IF goal.by = "button" /\ ch = goal.ch /\ pressState = WAITING_FOR_REASON
            /\ buttonState[ch] = HIGH
    THEN LOW
    ELSE HIGH

\* the remote command of the goal, sent while a reason is awaited
Command ==
    IF goal.by = "command" /\ pressState = WAITING_FOR_REASON /\ ~CycleDone
    THEN {[parse |-> TRUE, command |-> "select_reason", reason |-> ButtonReason(goal.ch)]}
    ELSE {}

\* the operator as they please: one reason button, a remote command with
\* and without its command field, a link that comes and goes, backend
\* unreachable
Free ==
    [auth |-> {NoAuthResponse}, renew |-> {NoAuthResponse},
     log |-> {[s1 |-> -1, rf |-> NoAuthResponse, lg |-> NoAuthResponse, s2 |-> -1, ms |-> ShortDelay]},
     alert |-> {[email |-> 401, telegram |-> 401, ms |-> ShortDelay]},
     msgs |-> {[parse |-> TRUE, command |-> "select_reason", reason |-> "Quality Issue"],
               [parse |-> TRUE, command |-> nullptr, reason |-> "Quality Issue"]},
     flaky |-> {FALSE}, driven |-> {Maintenance}, together |-> FALSE,
     bounce |-> FALSE, track |-> FALSE, boot |-> {bootDelay},
     quiet |-> TRUE, hold |-> AnyLevel, tick |-> TRUE, pass |-> TRUE,
     link |-> BOOLEAN, step |-> CoarseStep, ticks |-> FreeTicks,
     polls |-> {1}, delay |-> Latencies, connects |-> {<<TRUE>>},
     restart |-> TRUE]

\* the operator towards the goal: the link is restored, each button is held
\* at its target level, the command is sent when a reason is awaited,
\* millis() advances while a debounce window is open and loop() runs
\* otherwise
Operator ==
    [auth |-> {NoAuthResponse}, renew |-> {NoAuthResponse},
     log |-> {[s1 |-> -1, rf |-> NoAuthResponse, lg |-> NoAuthResponse, s2 |-> -1, ms |-> ShortDelay]},
     alert |-> {[email |-> 401, telegram |-> 401, ms |-> ShortDelay]},
     msgs |-> Command,
     flaky |-> {FALSE}, driven |-> ReasonChannels, together |-> TRUE,
     bounce |-> TRUE, track |-> FALSE, boot |-> {bootDelay},
     quiet |-> Command = {}, hold |-> [ch \in Channels |-> {Target(ch)}],
     tick |-> Pending, pass |-> ~Pending,
     link |-> {TRUE}, step |-> CoarseStep, ticks |-> FreeTicks + CycleTicks,
     polls |-> {0}, delay |-> Latencies, connects |-> {<<TRUE>>},
     restart |-> TRUE]

\* between two passes of loop() the operator sets out for a goal
Handover ==
    /\ pc = "net"
    /\ goal = NoGoal
    /\ goal' \in Goals
    /\ UNCHANGED <<pc, now, pressVars, authToken, debounceVars, rawVars, ledVars,
                   periodicVars, linkVars, passMoves, lap, lastMove, out, op, appVars>>

NextCycle ==
    \/ goal = NoGoal /\ Loop(Free)
    \/ goal # NoGoal /\ Loop(Operator)
    \/ Handover

\* loop() is called again and again and millis() advances
SpecCycle == Init /\ [][NextCycle]_vars /\ WF_vars(Loop(Operator))

\* C23: from every state the firmware can be in, an operator can still run
\* the complete cycle Idle -> Running -> WaitingForReason -> Idle, for each
\* of the four stop reasons, selected by button or by remote command; in
\* particular a stop that is open can always be closed.
C23_CycleStaysReachable == (goal # NoGoal) ~> CycleDone

\* the operator took over while a stop was open, closed it with the reason
\* button of the goal and went on to complete the cycle with that button
C23_Witness ==
    /\ goal # NoGoal /\ goal.by = "button"
    /\ CycleDone
    /\ Len(lap) = 4
    /\ lap[1].name = Handler(goal.ch)
    /\ pressState = IDLE

\* the pass over handleStartStopButton
StartStopCall == pc = StartStop /\ op'.name = "handleStartStopButton"

\* the call acted on a press: state, timestamps or credential changed, or
\* something was sent
ActedOn ==
    \/ pressState' # pressState
    \/ pressStartTime' # pressStartTime
    \/ pressStopTime' # pressStopTime
    \/ authToken' # authToken
    \/ out' # <<>>

\* C31: the stable Start/Stop level changes only by a commit of
\* handleStartStopButton; the handler acts on a press only in the call that
\* commits the change of the stable level from HIGH to LOW; while the
\* stable level is LOW (the button is held) no call acts on a press, so a
\* second press needs a commit back to HIGH and a new commit to LOW.
C31_OnePressPerHold ==
    [][/\ buttonState'[StartStop] # buttonState[StartStop]
          => StartStopCall /\ op'.commit
       /\ (StartStopCall /\ ActedOn) => PressCommitted(StartStop)
       /\ (StartStopCall /\ buttonState[StartStop] = LOW) => ~ActedOn]_vars

\* the button that started the press is still held, long after the debounce
\* window, and the press is still running on that one press
C31_Witness ==
    /\ op.name = "handleStartStopButton" /\ op.reading = LOW /\ ~op.commit
    /\ buttonState[StartStop] = LOW /\ lastButtonState[StartStop] = LOW
    /\ pressState = RUNNING
    /\ pressStartTime > 0
    /\ Sub32Gt(now, pressStartTime, debounceDelay)

\* valid JSON without the command field or without the reason field:
\* doc["command"] / doc["reason"] is then a null pointer
MissingField(m) == m.parse /\ (m.command = nullptr \/ m.reason = nullptr)

\* C32: a message that is valid JSON but lacks the command or the reason
\* field, delivered in WaitingForReason, is dropped: the callback returns
\* to loop(), the state stays WaitingForReason, the timestamps and the
\* credential are untouched and nothing is emitted; the firmware never
\* leaves loop().
C32_MissingFieldDropped ==
    /\ [](pc # "crashed")
    /\ [][(pressState = WAITING_FOR_REASON /\ pc = "mqtt" /\ pc' # pc
             /\ op'.name = "mqttCallback" /\ MissingField(op'.msg))
          => /\ pc' = "web"
             /\ pressState' = WAITING_FOR_REASON
             /\ out' = <<>>
             /\ UNCHANGED <<pressStartTime, pressStopTime, authToken>>]_vars

\* C33: a reason button selects a reason only if its press began while the
\* state was WaitingForReason: at every selection by a local reason button
\* the pin went LOW during WaitingForReason, not before.
C33_PressBeganWhileWaiting ==
    [][\A ch \in ReasonChannels :
         (pc = ch /\ op'.name = Handler(ch)
            /\ pressState = WAITING_FOR_REASON /\ pressState' = IDLE)
         => rawState'[ch] = WAITING_FOR_REASON]_vars

\* loginAlphaBase returned true in the step
LoginReturnedTrue(s) == \E i \in 1..Len(s) : s[i] = <<"login", TRUE>>

\* C34: loginAlphaBase returns true only for a response that carried an
\* access_token: after every step in which a login returned true the
\* credential is a token the backend issued (so it is not empty).
C34_LoginTrueCarriesToken ==
    [][LoginReturnedTrue(out') => authToken' \in Tokens]_vars

\* the alert attempts of a step, in the order made
Alerts(s) == SelectSeq(s, LAMBDA e : e[1] \in AlertKinds)

\* C35: sendStopNotifications and the two alert senders stay out of the
\* credential recovery: in a reason selection the alerts (at most one email
\* and one Telegram) all precede the event cascade, the first request after
\* them is the submission of the event (no refresh or login on behalf of an
\* alert), no alert is sent again after the cascade has recovered the
\* credential, the credential changes only when the cascade recovered it,
\* and the run timestamps are untouched.
C35_AlertsStayOutOfRecovery ==
    [][ReasonStep
       => LET n == Len(Alerts(out'))
          IN  /\ Count(out', "email") <= 1 /\ Count(out', "telegram") <= 1
              /\ \A i \in 1..n : out'[i][1] \in AlertKinds
              /\ n > 0 => out'[n + 1][1] = "submit"
              /\ (\A i \in 1..Len(out') : ~Recovered(out'[i])) => authToken' = authToken
              /\ UNCHANGED <<pressStartTime, pressStopTime>>]_vars

\* both alerts were rejected, the event cascade then renewed the
\* credential by refresh and logged the event; no alert was sent again
C35_Witness ==
    /\ pressState = IDLE
    /\ Len(out) >= 5
    /\ out[1][1] = "email" /\ out[1][6] = FALSE
    /\ out[2][1] = "telegram" /\ out[2][5] = FALSE
    /\ out[3][1] = "submit" /\ out[3][3] = "unauthorized"
    /\ out[4] = <<"refresh", TRUE>>
    /\ out[5][1] = "submit" /\ out[5][3] = "ok"
    /\ Len(Alerts(out)) = 2

\* an updateLEDs call returns with the step
LedsUpdated ==
    pc \in {"leds", "green"} /\ pc' = "periodic" /\ op'.name = "updateLEDs"

\* C36: in every state the red and the green LED are never lit together;
\* every updateLEDs call made in Idle leaves red on and green off, and
\* every call made in Running leaves red off.
C36_LedsExclusive ==
    /\ [](~(redLed = HIGH /\ greenLed = HIGH))
    /\ [][LedsUpdated
          => /\ pressState = IDLE => redLed' = HIGH /\ greenLed' = LOW
             /\ pressState = RUNNING => redLed' = LOW]_vars

\* C36 (amended): outside an updateLEDs call, that is whenever the call is
\* not between its two pin writes, the red and the green LED are never
\* lit together; every updateLEDs call made in Idle leaves red on and
\* green off, and every call made in Running leaves red off.
C36_LedsExclusiveBetweenCalls ==
    /\ [](pc # "green" => ~(redLed = HIGH /\ greenLed = HIGH))
    /\ [][LedsUpdated
          => /\ pressState = IDLE => redLed' = HIGH /\ greenLed' = LOW
             /\ pressState = RUNNING => redLed' = LOW]_vars

\* a reason is awaited and the blink has just switched: the call has
\* returned, the green LED, lit during the run, is off and the red LED is
\* on
C36_Witness ==
    /\ pressState = WAITING_FOR_REASON
    /\ op.name = "updateLEDs" /\ pc = "periodic"
    /\ lastBlinkTime = now
    /\ ledState = HIGH /\ redLed = HIGH /\ greenLed = LOW
    /\ pressStopTime > pressStartTime

\* ------------------------------------------------------------------------
\* Monitoring application: PressMonitorModel
\* ------------------------------------------------------------------------
\* _onDisconnected()
onDisconnected ==
    /\ connectionTimer' = FALSE
    /\ isConnected' = FALSE
    /\ appPressState' = "idle"
    /\ connectionMessage' = "Disconnected"

\* connect() up to `await _client!.connect()`
connect ==
    /\ IF isConnected \/ client = "connecting"
       THEN UNCHANGED <<client, connectionMessage, connectionTimer>>
       ELSE /\ client' = "connecting"
            /\ connectionMessage' = "Connecting..."
            /\ connectionTimer' = TRUE
    /\ UNCHANGED <<isConnected, appPressState, listening, inbox, sent, deviceVars>>

\* the broker accepted the connection: the client calls _onConnected()
onConnected ==
    /\ client = "connecting"
    /\ client' = "connected"
    /\ connectionTimer' = FALSE
    /\ isConnected' = TRUE
    /\ connectionMessage' = "Connected"
    /\ listening' = TRUE
    /\ UNCHANGED <<appPressState, inbox, sent, deviceVars>>

\* `await _client!.connect()` throws: the catch block of connect()
connectFailed ==
    /\ client = "connecting"
    /\ client' = "disconnected"
    /\ onDisconnected
    /\ UNCHANGED <<listening, inbox, sent, deviceVars>>

\* the callback of _connectionTimer
connectionTimeout ==
    /\ connectionTimer
    /\ IF ~isConnected
       THEN /\ client' = IF client = "null" THEN client ELSE "disconnected"
            /\ onDisconnected
       ELSE /\ connectionTimer' = FALSE
            /\ UNCHANGED <<client, isConnected, appPressState, connectionMessage>>
    /\ UNCHANGED <<listening, inbox, sent, deviceVars>>

\* disconnect()
disconnect ==
    /\ client' = IF client = "null" THEN client ELSE "disconnected"
    /\ onDisconnected
    /\ UNCHANGED <<listening, inbox, sent, deviceVars>>

\* the connection is lost: the client calls its onDisconnected callback
connectionLost ==
    /\ client = "connected"
    /\ client' = "disconnected"
    /\ onDisconnected
    /\ UNCHANGED <<listening, inbox, sent, deviceVars>>

\* a status message reaches the connected client and is queued on its
\* updates stream
statusReceived ==
    /\ client = "connected"
    /\ inbox = NoPayload
    /\ inbox' \in StatusPayloads
    /\ UNCHANGED <<client, isConnected, appPressState, connectionMessage,
                   connectionTimer, listening, sent, deviceVars>>

\* _handleIncomingMessage: the listener attached in _onConnected, which is
\* never cancelled and does not look at _isConnected
handleIncomingMessage ==
    /\ listening
    /\ inbox # NoPayload
    /\ inbox' = NoPayload
    /\ appPressState' = IF inbox.parse /\ inbox.press1 # nullptr
                        THEN updatePressState(inbox.press1)
                        ELSE appPressState
    /\ UNCHANGED <<client, isConnected, connectionMessage, connectionTimer,
                   listening, sent, deviceVars>>

\* sendReason(reasonLabel) of the model class
publishReason ==
    /\ \E label \in displayLabels :
         sent' = IF client = "null" \/ ~isConnected THEN sent ELSE sendReason(label)
    /\ UNCHANGED <<client, isConnected, appPressState, connectionMessage,
                   connectionTimer, listening, inbox, deviceVars>>

NextApp ==
    \/ connect
    \/ onConnected
    \/ connectFailed
    \/ connectionTimeout
    \/ disconnect
    \/ connectionLost
    \/ statusReceived
    \/ handleIncomingMessage
    \/ publishReason

SpecApp == Init /\ [][NextApp]_vars

\* C37: whenever the application is not connected the press state it holds
\* is idle, whatever the order of connect, timeout, disconnect and status
\* messages; and a status message that carries a state text sets the press
\* state to running for RUNNING, to waiting for WAITING_FOR_REASON and to
\* idle for every other text.
C37_DisconnectedShowsIdle ==
    /\ [](~isConnected => appPressState = "idle")
    /\ [][(inbox # NoPayload /\ inbox' = NoPayload
             /\ inbox.parse /\ inbox.press1 # nullptr)
          => appPressState' = IF inbox.press1 = "RUNNING" THEN "running"
                              ELSE IF inbox.press1 = "WAITING_FOR_REASON" THEN "waiting"
                              ELSE "idle"]_vars

================================================================
